---------------------------- MODULE Spec2Model ----------------------------
(***************************************************************************)
(* A model of the VMX progress tracker, queue poller and video mixer.       *)
(*                                                                         *)
(*   SpecParser       parseProgressFile and parseProgressTargetFile,       *)
(*                    applied to bounded files.                            *)
(*   SpecScanner      readDirectoryFiles, applied to bounded directory     *)
(*                    listings.                                            *)
(*   SpecTracker      the ProgressTracker component: cold-start restore,   *)
(*                    openDirectoryPicker (grant), refreshFiles, the Hapus *)
(*                    handler (forget) and the IndexedDB handle store.     *)
(*   SpecTrackerFair  SpecTracker with the platform's steps weakly fair.   *)
(*   SpecQueue        the QueueView component shown with one apiUrl:       *)
(*                    fetchQueue, the polling timer and cancelQueueItem.   *)
(*   SpecPoller       the polling effect over the component's life: mount, *)
(*                    apiUrl change, unmount.                              *)
(*   SpecCancelFair   the cancel round trips under polling, with every     *)
(*                    request answered.                                    *)
(*   SpecRender       the progress block of one listed file: percentage    *)
(*                    label and bar width.                                 *)
(*   SpecStore        the handle store on its own: saveDirectoryHandle,    *)
(*                    restoreDirectoryHandle, clearDirectoryHandle.        *)
(*   SpecConfig       the API URL of Home, VideoMixer and QueueView:       *)
(*                    Config panel, tabs, page load and the requests sent. *)
(*   SpecAudio        VideoMixer's audio list: moveAudioFile and           *)
(*                    randomizeAudioFiles.                                 *)
(*   SpecScanRead     readDirectoryFiles over listings whose sidecar files *)
(*                    may fail to be read.                                 *)
(*   SpecForm         VideoMixer's mode, encoder and preset controls and   *)
(*                    the query of the build request.                      *)
(*                                                                         *)
(* Every asynchronous handler is cut where the code awaits something that  *)
(* is not already settled (a picker, an IndexedDB request, a directory     *)
(* enumeration, a network response).  A continuation that runs in the same *)
(* microtask chain as the step that resolved it is part of that step.      *)
(***************************************************************************)
EXTENDS Integers, Sequences, FiniteSets, TLC

VARIABLES
    \* ---- parseProgressFile ----
    pText,          \* the raw lines of the progress log, each split on '='
    pPc,            \* "ready" | "done"
    pResult,        \* Null or Some(ProgressData)
    \* ---- parseProgressTargetFile ----
    tText,          \* the raw lines of the target file, each split on '='
    tPc,            \* "ready" | "done"
    tResult,        \* Null or Some(ProgressTarget)
    \* ---- readDirectoryFiles, on its own ----
    sEntries,       \* what handle.values() yields, in enumeration order
    sPc,            \* "ready" | "done"
    sFiles,         \* the list passed to setFiles
    sError,         \* the message passed to setError by the scan, "" if none
    \* ---- ProgressTracker component state (useState) ----
    files, loading, error, directoryHandle, directoryPath, isRestoring,
    \* ---- browser ----
    supported,      \* 'showDirectoryPicker' in window
    idb,            \* record under key 'directory_handle' of store 'handles'
    idbQueue,       \* owners of the pending IndexedDB requests, oldest first
    lsName,         \* localStorage 'vmx_directory_name'
    \* ---- positions of the asynchronous handlers ----
    restorePc, restoreHandle,
    grantPc, grantHandle,
    refreshPc, refreshHandle,
    forgetPc,
    errorCalls,     \* setError calls with a message made by the latest step
    outcomes,       \* per handler, how the wait it last resumed from ended
    \* ---- QueueView component state (useState) ----
    queueItems, qLoading, qError, cancellingIds,
    \* ---- QueueView environment ----
    mounted,        \* the polling effect has run and the component is shown
    unmounted,      \* the component has been removed from the page
    apiUrl,         \* the apiUrl prop
    interval,       \* live setInterval(fetchQueue, 2000) timers, each named
                    \* by the address its fetchQueue closure polls
    server,         \* the remote job table
    fetches,        \* GET /api/queue/list requests in flight
    cancels,        \* DELETE /api/queue/cancel requests in flight
    errorTimers,    \* pending setTimeout(() => setError(''), 5000)
    issued,         \* number of list fetches issued so far
    cancelsIssued,  \* number of cancel requests issued so far
    cancelClock,    \* number of cancel requests that have succeeded so far
    awaiting,       \* per job: cancelClock of its last success not yet followed
                    \* by a display update, 0 when none
    \* ---- the progress block of one listed file, on its own ----
    rData,          \* file.progressData: Null or Some(ProgressData)
    rTarget,        \* file.progressTarget: Null or Some(ProgressTarget)
    rPc,            \* "ready" | "done"
    rLabel,         \* the percentage label: Null (not rendered) or Some(n)
    rBar,           \* the bar's width in percent, a fraction: Null or Some
    \* ---- the handle store (IndexedDB vmx_directory_db), on its own ----
    hsDb,           \* Null: no database yet; Some(handles): the object store
    hsFirst,        \* the database the first session started with
    hsLog,          \* the calls made so far, each with how it ended
    hsSession,      \* "first" | "later": a page reload lies between them
    \* ---- the API URL of the app (Home, VideoMixer, QueueView) ----
    envApiUrl,      \* process.env.NEXT_PUBLIC_API_URL: Null or Some(url)
    localStorageUrl, \* localStorage 'vmx_api_url': Null or Some(url)
    homeApiUrl,     \* Home's apiUrl state, handed to QueueView
    mixerApiUrl,    \* VideoMixer's apiUrl state, while it is mounted
    activeTab,      \* "mixer" | "queue"
    buildUrl,       \* Null, or Some(apiUrl of the render buildVideo ran in)
    requests,       \* the backend requests sent by the last step
    savedUrl,       \* Null, or Some(url saved by Simpan and not edited since)
    started,        \* TRUE until the first step after the page is loaded
    \* ---- the audio list of VideoMixer, on its own ----
    audioFiles,     \* the audioFiles state: a sequence of AudioFile
    audioFirst,     \* the list as it was uploaded
    audioCall,      \* the last call made on the list, with the list before
    \* ---- the encoder and preset controls of VideoMixer, on their own ----
    encoder,        \* the encoder state
    preset,         \* the preset state
    mode,           \* the mode state: "black-screen" or "video-loop"
    buildQuery      \* mode, encoder and preset of the last build request

parserVars == <<pText, pPc, pResult, tText, tPc, tResult>>
trackerVars == <<files, loading, error, directoryHandle, directoryPath,
                 isRestoring, supported, idb, idbQueue, lsName, restorePc,
                 restoreHandle, grantPc, grantHandle, refreshPc, refreshHandle,
                 forgetPc, errorCalls, outcomes>>
queueVars == <<queueItems, qLoading, qError, cancellingIds, mounted,
               unmounted, apiUrl, interval, server, fetches, cancels,
               errorTimers, issued, cancelsIssued, cancelClock, awaiting>>
scannerVars == <<sEntries, sPc, sFiles, sError>>
renderVars == <<rData, rTarget, rPc, rLabel, rBar>>
storeVars == <<hsDb, hsFirst, hsLog, hsSession>>
configVars == <<envApiUrl, localStorageUrl, homeApiUrl, mixerApiUrl, activeTab,
                buildUrl, requests, savedUrl, started>>
audioVars == <<audioFiles, audioFirst, audioCall>>
formVars == <<encoder, preset, mode, buildQuery>>
vars == <<parserVars, scannerVars, trackerVars, queueVars, renderVars,
          storeVars, configVars, audioVars, formVars>>

\* a step of one component leaves the other components alone
ParserOnly ==
    UNCHANGED <<scannerVars, trackerVars, queueVars, renderVars,
                storeVars, configVars, audioVars, formVars>>
ScannerOnly ==
    UNCHANGED <<parserVars, trackerVars, queueVars, renderVars,
                storeVars, configVars, audioVars, formVars>>
TrackerOnly ==
    UNCHANGED <<parserVars, scannerVars, queueVars, renderVars,
                storeVars, configVars, audioVars, formVars>>
QueueOnly ==
    UNCHANGED <<parserVars, scannerVars, trackerVars, renderVars,
                storeVars, configVars, audioVars, formVars>>
RenderOnly ==
    UNCHANGED <<parserVars, scannerVars, trackerVars, queueVars,
                storeVars, configVars, audioVars, formVars>>
StoreOnly ==
    UNCHANGED <<parserVars, scannerVars, trackerVars, queueVars,
                renderVars, configVars, audioVars, formVars>>
ConfigOnly ==
    UNCHANGED <<parserVars, scannerVars, trackerVars, queueVars,
                renderVars, storeVars, audioVars, formVars>>
AudioOnly ==
    UNCHANGED <<parserVars, scannerVars, trackerVars, queueVars,
                renderVars, storeVars, configVars, formVars>>
FormOnly ==
    UNCHANGED <<parserVars, scannerVars, trackerVars, queueVars,
                renderVars, storeVars, configVars, audioVars>>

-----------------------------------------------------------------------------
(* Optional values: null / undefined is the empty sequence.                *)
Null == <<>>
Some(x) == <<x>>

\* the greatest element of a non-empty set of indices
LastOf(S) == CHOOSE i \in S : \A j \in S : j <= i

-----------------------------------------------------------------------------
(***************************************************************************)
(* parseProgressFile                                                       *)
(*                                                                         *)
(* A raw line is the sequence of its parts between '=' signs, so that      *)
(* line.includes('=') is Len(line) >= 2 and line.split('=').length is      *)
(* Len(line).                                                              *)
(***************************************************************************)
MaxLines == 4

LineAlphabet ==
    { <<"frame", "1">>, <<" frame ", "2 ">>, <<"frame", "x">>,
      <<"out_time_ms", "5">>, <<"out_time_ms", "9">>,
      <<"progress", "continue">>, <<"progress", "end">>,
      <<"frame", "1", "2">>, <<"noise">>, <<"">>, <<"bogus", "7">> }

ProgressLogs == UNION { [1..n -> LineAlphabet] : n \in 0..MaxLines }

\* String.prototype.trim on the strings of the alphabet.
Trim(s) ==
    CASE s = " frame " -> "frame"
      [] s = " total_frames " -> "total_frames"
      [] s = "2 " -> "2"
      [] s = " " -> ""
      [] OTHER -> s

\* parseInt / parseFloat: a number, or NaN (ok = FALSE).
ParseInt(s) ==
    CASE s = "0" -> [ok |-> TRUE, n |-> 0]
      [] s = "1" -> [ok |-> TRUE, n |-> 1]
      [] s = "2" -> [ok |-> TRUE, n |-> 2]
      [] s = "5" -> [ok |-> TRUE, n |-> 5]
      [] s = "7" -> [ok |-> TRUE, n |-> 7]
      [] s = "9" -> [ok |-> TRUE, n |-> 9]
      [] OTHER -> [ok |-> FALSE, n |-> 0]

ParseFloat(s) == ParseInt(s)

\* `x || 0`: NaN and 0 are falsy.
OrZero(r) == IF r.ok /\ r.n # 0 THEN r.n ELSE 0

\* `x || undefined`
OrUndefined(r) == IF r.ok /\ r.n # 0 THEN Some(r.n) ELSE Null

\* text.split('\n').filter(line => line.trim())
IsBlankLine(line) == Len(line) = 1 /\ Trim(line[1]) = ""
SplitLines(text) == SelectSeq(text, LAMBDA l : ~IsBlankLine(l))

NewProgress(value) ==
    [frame |-> OrZero(ParseInt(value)), fps |-> 0, bitrate |-> "",
     outTime |-> "", outTimeMs |-> 0, speed |-> "", progress |-> "continue",
     totalSize |-> 0, streamQuality |-> Null]

\* the switch (key) of the loop body, applied to the open entry
UpdateProgress(cur, key, value) ==
    CASE key = "fps" -> [cur EXCEPT !.fps = OrZero(ParseFloat(value))]
      [] key = "bitrate" -> [cur EXCEPT !.bitrate = Trim(value)]
      [] key = "out_time" -> [cur EXCEPT !.outTime = value]
      [] key = "out_time_ms" -> [cur EXCEPT !.outTimeMs = OrZero(ParseInt(value))]
      [] key = "speed" -> [cur EXCEPT !.speed = Trim(value)]
      [] key = "progress" -> [cur EXCEPT !.progress = value]
      [] key = "total_size" -> [cur EXCEPT !.totalSize = OrZero(ParseInt(value))]
      [] key = "stream_0_0_q" ->
            [cur EXCEPT !.streamQuality = OrUndefined(ParseFloat(value))]
      [] OTHER -> cur

\* One iteration of `for (const line of lines)`: the pair
\* <<currentProgress, lastProgress>> after the line.
ParseLineOpensOnAnyKey(line, st) ==
    IF Len(line) # 2 THEN st
    ELSE LET key == Trim(line[1])
             value == Trim(line[2])
             cur == st[1]
             last == st[2]
         IN  IF key = "frame"
             THEN <<Some(NewProgress(value)), IF cur # Null THEN cur ELSE last>>
             ELSE <<Some(UpdateProgress(IF cur # Null THEN cur[1] ELSE NewProgress("0"),
                                        key, value)), last>>
ParseLine(line, st) ==
    IF Len(line) < 2 THEN st
    ELSE IF Len(line) # 2 THEN st
    ELSE LET key == Trim(line[1])
             value == Trim(line[2])
             cur == st[1]
             last == st[2]
         IN  IF key = "frame"
             THEN <<Some(NewProgress(value)), IF cur # Null THEN cur ELSE last>>
             ELSE IF cur # Null
             THEN <<Some(UpdateProgress(cur[1], key, value)), last>>
             ELSE st

RECURSIVE ParseLoop(_, _, _)
ParseLoop(lines, i, st) ==
    IF i > Len(lines) THEN st
    ELSE ParseLoop(lines, i + 1, ParseLine(lines[i], st))

\* `return currentProgress || lastProgress`
Returned(st) == IF st[1] # Null THEN st[1] ELSE st[2]

parseProgressFile(text) ==
    Returned(ParseLoop(SplitLines(text), 1, <<Null, Null>>))

Parse ==
    /\ ParserOnly
    /\ pPc = "ready"
    /\ pResult' = parseProgressFile(pText)
    /\ pPc' = "done"
    /\ UNCHANGED <<pText, tText, tPc, tResult>>

-----------------------------------------------------------------------------
(***************************************************************************)
(* parseProgressTargetFile                                                 *)
(*                                                                         *)
(* target: Partial<ProgressTarget> is a function from the field names to   *)
(* Null (the field is not set, or set to undefined) or Some(value).        *)
(***************************************************************************)
TargetFields ==
    {"queueId", "type", "outputFile", "totalDuration", "totalFrames", "width",
     "height", "fps", "encoder", "preset", "fadeEffect", "fadeDuration",
     "fadeOffset", "createdAt"}

\* one line for every key other than queue_id, total_duration, total_frames
TargetOtherLines ==
    << <<"type", "mix">>, <<"output_file", "out.mp4">>, <<"width", "2">>,
       <<"height", "1">>, <<"fps", "5">>, <<"encoder", "libx264">>,
       <<"preset", "fast">>, <<"fade_effect", "none">>,
       <<"fade_duration", "1">>, <<"fade_offset", "2">>,
       <<"created_at", "now">> >>

TargetAlphabet ==
    { <<"queue_id", "q1">>, <<"queue_id", "">>,
      <<"total_duration", "5">>, <<"total_duration", "0">>,
      <<"total_duration", "x">>,
      <<"total_frames", "7">>, <<"total_frames", "0">>,
      <<" total_frames ", "9">>, <<"total_frames", "7", "1">>,
      <<"noise">>, <<"fade_effect", "fadein">> }

\* the target files: the other keys all present or all missing, followed by up
\* to MaxLines lines of the alphabet
TargetLogs ==
    { head \o body :
        head \in {<<>>, TargetOtherLines},
        body \in UNION { [1..n -> TargetAlphabet] : n \in 0..MaxLines } }

EmptyTarget == [f \in TargetFields |-> Null]

\* the switch (key) of the loop body
UpdateTarget(target, key, value) ==
    CASE key = "queue_id" -> [target EXCEPT !["queueId"] = Some(value)]
      [] key = "type" -> [target EXCEPT !["type"] = Some(value)]
      [] key = "output_file" -> [target EXCEPT !["outputFile"] = Some(value)]
      [] key = "total_duration" ->
            [target EXCEPT !["totalDuration"] = Some(OrZero(ParseFloat(value)))]
      [] key = "total_frames" ->
            [target EXCEPT !["totalFrames"] = Some(OrZero(ParseInt(value)))]
      [] key = "width" -> [target EXCEPT !["width"] = OrUndefined(ParseInt(value))]
      [] key = "height" -> [target EXCEPT !["height"] = OrUndefined(ParseInt(value))]
      [] key = "fps" -> [target EXCEPT !["fps"] = OrUndefined(ParseInt(value))]
      [] key = "encoder" -> [target EXCEPT !["encoder"] = Some(value)]
      [] key = "preset" -> [target EXCEPT !["preset"] = Some(value)]
      [] key = "fade_effect" ->
            [target EXCEPT !["fadeEffect"] =
                IF value = "none" THEN Null ELSE Some(value)]
      [] key = "fade_duration" ->
            [target EXCEPT !["fadeDuration"] = OrUndefined(ParseFloat(value))]
      [] key = "fade_offset" ->
            [target EXCEPT !["fadeOffset"] = OrUndefined(ParseFloat(value))]
      [] key = "created_at" -> [target EXCEPT !["createdAt"] = Some(value)]
      [] OTHER -> target

\* one iteration of `for (const line of lines)`
\* (a variant that splits on the first '=' only and keeps what follows it up
\* to the next one as the value)
TargetLineSplitsOnce(line, target) ==
    IF Len(line) < 2 THEN target
    ELSE UpdateTarget(target, Trim(line[1]), Trim(line[2]))
TargetLine(line, target) ==
    IF Len(line) # 2 THEN target
    ELSE UpdateTarget(target, Trim(line[1]), Trim(line[2]))

RECURSIVE TargetLoop(_, _, _)
TargetLoop(lines, i, target) ==
    IF i > Len(lines) THEN target
    ELSE TargetLoop(lines, i + 1, TargetLine(lines[i], target))

\* JavaScript truthiness of an optional string / an optional number
TruthyString(v) == v # Null /\ v[1] # ""
TruthyNumber(v) == v # Null /\ v[1] # 0

\* `if (target.queueId && target.totalDuration && target.totalFrames)`
TargetValidWithoutFrames(target) ==
    TruthyString(target["queueId"]) /\ TruthyNumber(target["totalDuration"])
TargetValid(target) ==
    /\ TruthyString(target["queueId"])
    /\ TruthyNumber(target["totalDuration"])
    /\ TruthyNumber(target["totalFrames"])

parseProgressTargetFile(text) ==
    LET target == TargetLoop(SplitLines(text), 1, EmptyTarget)
    IN  IF TargetValid(target) THEN Some(target) ELSE Null

ParseTarget ==
    /\ ParserOnly
    /\ tPc = "ready"
    /\ tResult' = parseProgressTargetFile(tText)
    /\ tPc' = "done"
    /\ UNCHANGED <<tText, pText, pPc, pResult>>

\* one file is under test at a time: a progress log or a target file
ParserInit ==
    /\ \/ pText \in ProgressLogs /\ pPc = "ready" /\ tText = <<>> /\ tPc = "done"
       \/ tText \in TargetLogs /\ tPc = "ready" /\ pText = <<>> /\ pPc = "done"
    /\ pResult = Null
    /\ tResult = Null

-----------------------------------------------------------------------------
(***************************************************************************)
(* ProgressTracker: directories, the scan, the handle store                *)
(***************************************************************************)
Dirs == {"dirA", "dirB"}
NoHandle == "null"
NoName == ""

\* FileSystemDirectoryHandle.name
HandleName(d) == IF d = "dirA" THEN "out" ELSE "renders"

\* The entries handle.values() yields, in enumeration order.  A file name is
\* the sequence of its pieces, a stem followed by suffixes: "a1.mp4" is
\* <<"a1", ".mp4">>, "a1.mp4_progress.txt" is <<"a1", ".mp4", "_progress.txt">>.
\* text is what file.text() returns, as lines split on '='; readable is FALSE
\* when file.text() rejects instead.
DirEntries(d) ==
    IF d = "dirA"
    THEN << [name |-> <<"a1", ".mp4">>, kind |-> "file", lastModified |-> 1,
             readable |-> TRUE,
             text |-> <<>>],
            [name |-> <<"a1", "_progress.txt">>, kind |-> "file",
             lastModified |-> 3, readable |-> TRUE,
             text |-> << <<"frame", "1">>, <<"progress", "continue">> >>],
            [name |-> <<"a2", ".mkv">>, kind |-> "file", lastModified |-> 2,
             readable |-> TRUE,
             text |-> <<>>] >>
    ELSE << [name |-> <<"b1", ".avi">>, kind |-> "file", lastModified |-> 5,
             readable |-> TRUE,
             text |-> <<>>] >>

\* file.name.toLowerCase(), on the suffix
LowerSuffix(x) ==
    CASE x = ".MP4" -> ".mp4"
      [] x = "_PROGRESS.TXT" -> "_progress.txt"
      [] x = ".MKV" -> ".mkv"
      [] x = ".AVI" -> ".avi"
      [] OTHER -> x

\* fileName.endsWith(suffix), fileName the lower-cased name
LowerEndsWith(name, suffixes) ==
    Len(name) > 0 /\ LowerSuffix(name[Len(name)]) \in suffixes

IsVideoName(name) == LowerEndsWith(name, {".mp4", ".mkv", ".avi"})
IsProgressName(name) == LowerEndsWith(name, {"_progress.txt"})
IsTargetName(name) == LowerEndsWith(name, {"_progress_target.txt"})

\* name.replace(/suffix$/, ''), the regular expression case-sensitive
StripSuffix(name, suffixes) ==
    IF Len(name) > 0 /\ name[Len(name)] \in suffixes
    THEN SubSeq(name, 1, Len(name) - 1)
    ELSE name

getBaseFileName(name) ==
    StripSuffix(StripSuffix(StripSuffix(name, {"_progress.txt"}),
                            {"_progress_target.txt"}),
                {".mp4", ".mkv", ".avi"})

\* first pass of readDirectoryFiles: the video files, in enumeration order
CollectVideos(entries) ==
    SelectSeq(entries, LAMBDA e : e.kind = "file" /\ IsVideoName(e.name))

\* first pass: progressFiles.get(base) / targetFiles.get(base) once every
\* entry has been seen; Map.set overwrites, so the last file of a base wins
SidecarFor(entries, IsSidecar(_), base) ==
    LET found == {i \in 1..Len(entries) :
                    /\ entries[i].kind = "file"
                    /\ IsSidecar(entries[i].name)
                    /\ getBaseFileName(entries[i].name) = base}
    IN  IF found = {} THEN Null ELSE Some(entries[LastOf(found)])

\* parseProgressFile(file) with its try/catch around `await file.text()` and
\* the loop: what it returns, and whether it throws to its caller
\* (a variant whose catch throws the read error again)
readProgressFileRethrows(file) ==
    [threw |-> ~file.readable,
     value |-> IF file.readable THEN parseProgressFile(file.text) ELSE Null]
readProgressFile(file) ==
    [threw |-> FALSE,
     value |-> IF file.readable THEN parseProgressFile(file.text) ELSE Null]

\* parseProgressTargetFile(file), likewise
readTargetFile(file) ==
    [threw |-> FALSE,
     value |-> IF file.readable THEN parseProgressTargetFile(file.text)
               ELSE Null]

\* fileList.push({...}) and the second pass on that element
FileInfoOf(entries, e) ==
    LET base == getBaseFileName(e.name)
        progressFile == SidecarFor(entries, IsProgressName, base)
        targetFile == SidecarFor(entries, IsTargetName, base)
    IN  [name |-> e.name,
         lastModified |-> e.lastModified,
         progressTarget |-> IF targetFile = Null THEN Null
                            ELSE readTargetFile(targetFile[1]).value,
         progressData |-> IF progressFile = Null THEN Null
                          ELSE readProgressFile(progressFile[1]).value]

\* the second pass meets a parser call that throws: readDirectoryFiles' own
\* catch takes over, before setFiles
SecondPassThrows(entries) ==
    \E k \in 1..Len(CollectVideos(entries)) :
       LET base == getBaseFileName(CollectVideos(entries)[k].name)
           progressFile == SidecarFor(entries, IsProgressName, base)
           targetFile == SidecarFor(entries, IsTargetName, base)
       IN  \/ targetFile # Null /\ readTargetFile(targetFile[1]).threw
           \/ progressFile # Null /\ readProgressFile(progressFile[1]).threw

AttachSidecars(entries, list) ==
    [i \in 1..Len(list) |-> FileInfoOf(entries, list[i])]

\* fileList.sort((a, b) => b.lastModified - a.lastModified): stable, newest first
RECURSIVE InsertByDate(_, _)
InsertByDate(f, sorted) ==
    IF sorted = <<>> THEN <<f>>
    ELSE IF f.lastModified > Head(sorted).lastModified
         THEN <<f>> \o sorted
         ELSE <<Head(sorted)>> \o InsertByDate(f, Tail(sorted))

RECURSIVE SortNewestFirst(_)
SortNewestFirst(list) ==
    IF list = <<>> THEN <<>>
    ELSE InsertByDate(list[Len(list)], SortNewestFirst(SubSeq(list, 1, Len(list) - 1)))

\* what a successful readDirectoryFiles(handle) passes to setFiles
readDirectoryFilesUnsorted(entries) ==
    AttachSidecars(entries, CollectVideos(entries))
readDirectoryFiles(entries) ==
    SortNewestFirst(AttachSidecars(entries, CollectVideos(entries)))

\* (a variant that publishes the collected entries before the second pass)
ScanResultUnattached(d) == SortNewestFirst(CollectVideos(DirEntries(d)))
ScanResult(d) == readDirectoryFiles(DirEntries(d))

\* ---- readDirectoryFiles applied to bounded directory listings ----
MaxEntries == 3

ProgressText(frame) == << <<"frame", frame>>, <<"progress", "continue">> >>
TargetText(frames) ==
    << <<"queue_id", "q1">>, <<"total_duration", "5">>,
       <<"total_frames", frames>> >>

FileAlphabet ==
    { [name |-> <<"song", ".mp4">>, kind |-> "file", text |-> <<>>],
      [name |-> <<"song", ".mkv">>, kind |-> "file", text |-> <<>>],
      [name |-> <<"song", ".MP4">>, kind |-> "file", text |-> <<>>],
      [name |-> <<"song2", ".mp4">>, kind |-> "file", text |-> <<>>],
      [name |-> <<"clips", ".avi">>, kind |-> "directory", text |-> <<>>],
      [name |-> <<"song", "_progress.txt">>, kind |-> "file",
       text |-> ProgressText("1")],
      [name |-> <<"song2", "_progress.txt">>, kind |-> "file",
       text |-> ProgressText("2")],
      [name |-> <<"song", ".mp4", "_progress.txt">>, kind |-> "file",
       text |-> ProgressText("5")],
      [name |-> <<"song", "_progress_target.txt">>, kind |-> "file",
       text |-> TargetText("7")],
      [name |-> <<"song", ".mkv", "_progress_target.txt">>, kind |-> "file",
       text |-> TargetText("9")] }

Stamped(f, t) ==
    [name |-> f.name, kind |-> f.kind, text |-> f.text, lastModified |-> t,
     readable |-> TRUE]

\* the last-modified timestamps tried
Stamps == 1..3

\* directories of up to MaxEntries entries with distinct names
Listings ==
    UNION { { l \in [1..n -> {Stamped(f, t) : f \in FileAlphabet, t \in Stamps}] :
                \A i, j \in 1..n : i # j => l[i].name # l[j].name }
            : n \in 0..MaxEntries }

ScannerInit ==
    /\ sEntries \in Listings
    /\ sPc = "ready"
    /\ sFiles = <<>>
    /\ sError = ""

\* sidecars whose content cannot be read, beside readable ones
ReadAlphabet ==
    { [name |-> <<"song", ".mp4">>, text |-> <<>>, readable |-> TRUE],
      [name |-> <<"song", ".mkv">>, text |-> <<>>, readable |-> TRUE],
      [name |-> <<"song2", ".mp4">>, text |-> <<>>, readable |-> TRUE],
      [name |-> <<"song", "_progress.txt">>, text |-> ProgressText("1"),
       readable |-> TRUE],
      [name |-> <<"song", "_progress.txt">>, text |-> ProgressText("1"),
       readable |-> FALSE],
      [name |-> <<"song2", "_progress.txt">>, text |-> ProgressText("2"),
       readable |-> TRUE],
      [name |-> <<"song", "_progress_target.txt">>, text |-> TargetText("7"),
       readable |-> TRUE],
      [name |-> <<"song", "_progress_target.txt">>, text |-> TargetText("7"),
       readable |-> FALSE] }

ReadListings ==
    UNION { { l \in [1..n -> {[name |-> f.name, kind |-> "file",
                               text |-> f.text, lastModified |-> 1,
                               readable |-> f.readable] : f \in ReadAlphabet}] :
                \A i, j \in 1..n : i # j => l[i].name # l[j].name }
            : n \in 0..MaxEntries }

ScanReadInit ==
    /\ sEntries \in ReadListings
    /\ sPc = "ready"
    /\ sFiles = <<>>
    /\ sError = ""

ScanErrorMessage == "Gagal membaca file dari directory"

\* readDirectoryFiles(handle) on a directory that can be enumerated:
\* setFiles(fileList), or the catch's setError when the second pass threw
Scan ==
    /\ ScannerOnly
    /\ sPc = "ready"
    /\ IF SecondPassThrows(sEntries)
       THEN sFiles' = sFiles /\ sError' = ScanErrorMessage
       ELSE sFiles' = readDirectoryFiles(sEntries) /\ sError' = sError
    /\ sPc' = "done"
    /\ UNCHANGED sEntries

GrantErrorMessage == "Gagal membuka directory"

\* The end of readDirectoryFiles(handle): try { ...; setFiles(fileList) }
\* catch { setError(...) } finally { setLoading(false) }.  The values of
\* <<files, error, number of setError calls>> after it.
\* the error message after the scan: the try never calls setError
\* (a variant whose try ends with setError(''))
ErrorAfterScanCleared(ok) == IF ok THEN "" ELSE ScanErrorMessage
ErrorAfterScan(ok) == IF ok THEN error ELSE ScanErrorMessage

ScanFailureClearsFiles(ok, d) ==
    IF ok THEN <<ScanResult(d), error, 0>> ELSE <<<<>>, ScanErrorMessage, 1>>
ScanOutcome(ok, d) ==
    IF ok THEN <<ScanResult(d), ErrorAfterScan(ok), 0>>
    ELSE <<files, ErrorAfterScan(ok), 1>>

\* nothing awaited yet
NoOutcomes == [h \in {"restore", "grant", "refresh", "forget"} |-> "none"]
Settled(handler, outcome) == [outcomes EXCEPT ![handler] = outcome]

TrackerInit ==
    /\ files = <<>>
    /\ loading = FALSE
    /\ error = ""
    /\ directoryHandle = NoHandle
    /\ directoryPath = ""
    /\ isRestoring = TRUE
    /\ supported \in BOOLEAN
    /\ idb \in Dirs \cup {NoHandle}
    /\ idbQueue = <<>>
    /\ lsName \in {HandleName(d) : d \in Dirs} \cup {NoName}
    /\ restorePc = "mount"
    /\ restoreHandle = NoHandle
    /\ grantPc = "idle"
    /\ grantHandle = NoHandle
    /\ refreshPc = "idle"
    /\ refreshHandle = NoHandle
    /\ forgetPc = "idle"
    /\ errorCalls = 0
    /\ outcomes = NoOutcomes

\* ---- the mount effect: restoreDirectory ----

\* restoreDirectory up to `await restoreDirectoryHandle()`
RestoreStart ==
    /\ TrackerOnly
    /\ restorePc = "mount"
    /\ IF ~supported
       THEN /\ isRestoring' = FALSE
            /\ restorePc' = "done"
            /\ UNCHANGED idbQueue
       ELSE /\ isRestoring' = TRUE
            /\ restorePc' = "loading"
            /\ idbQueue' = Append(idbQueue, "restore")
    /\ errorCalls' = 0
    /\ UNCHANGED <<files, loading, error, directoryHandle, directoryPath,
                   supported, idb, lsName, restoreHandle, grantPc, grantHandle,
                   refreshPc, refreshHandle, forgetPc, outcomes>>

\* restoreDirectoryHandle: what the promise resolves to
LoadedHandle(outcome) == IF outcome = "ok" THEN idb ELSE NoHandle

\* restoreDirectoryHandle settles; restoreDirectory runs to its next await
RestoreLoaded ==
    /\ TrackerOnly
    /\ restorePc = "loading"
    /\ idbQueue # <<>> /\ Head(idbQueue) = "restore"
    /\ idbQueue' = Tail(idbQueue)
    /\ \E outcome \in {"ok", "openError", "getError"} :
         LET handle == LoadedHandle(outcome) IN
         /\ outcomes' = Settled("restore", outcome)
         /\ IF handle # NoHandle
            THEN /\ restoreHandle' = handle
                 /\ restorePc' = "verifying"
                 /\ UNCHANGED <<directoryPath, isRestoring>>
            ELSE /\ directoryPath' = IF lsName # NoName THEN lsName ELSE directoryPath
                 /\ isRestoring' = FALSE
                 /\ restorePc' = "done"
                 /\ UNCHANGED restoreHandle
    /\ errorCalls' = 0
    /\ UNCHANGED <<files, loading, error, directoryHandle, supported, idb,
                   lsName, grantPc, grantHandle, refreshPc, refreshHandle,
                   forgetPc>>

\* The branch of restoreDirectory taken when verify returns false:
\* <<directoryHandle, directoryPath, next position>>.
InvalidBranchActivates(handle) == <<handle, HandleName(handle), "clearing">>
InvalidBranch(handle) == <<directoryHandle, directoryPath, "clearing">>

\* The branch taken when verify returns true: setDirectoryHandle(handle),
\* setDirectoryPath(handle.name), then readDirectoryFiles(handle).
ValidBranchKeepsState(handle) == <<directoryHandle, directoryPath, "scanning">>
ValidBranch(handle) == <<handle, HandleName(handle), "scanning">>

\* verifyDirectoryHandle settles; restoreDirectory runs to its next await
RestoreVerified ==
    /\ TrackerOnly
    /\ restorePc = "verifying"
    /\ \E isValid \in BOOLEAN :
         /\ outcomes' = Settled("restore", IF isValid THEN "valid" ELSE "invalid")
         /\ IF isValid
            THEN /\ directoryHandle' = ValidBranch(restoreHandle)[1]
                 /\ directoryPath' = ValidBranch(restoreHandle)[2]
                 /\ restorePc' = ValidBranch(restoreHandle)[3]
                 /\ loading' = TRUE
                 /\ UNCHANGED idbQueue
            ELSE /\ directoryHandle' = InvalidBranch(restoreHandle)[1]
                 /\ directoryPath' = InvalidBranch(restoreHandle)[2]
                 /\ restorePc' = InvalidBranch(restoreHandle)[3]
                 /\ idbQueue' = Append(idbQueue, "restore")
                 /\ UNCHANGED loading
    /\ errorCalls' = 0
    /\ UNCHANGED <<files, error, isRestoring, supported, idb, lsName,
                   restoreHandle, grantPc, grantHandle, refreshPc,
                   refreshHandle, forgetPc>>

\* readDirectoryFiles(handle) ends; restoreDirectory ends
RestoreScanned ==
    /\ TrackerOnly
    /\ restorePc = "scanning"
    /\ \E ok \in BOOLEAN :
         /\ files' = ScanOutcome(ok, restoreHandle)[1]
         /\ error' = ScanOutcome(ok, restoreHandle)[2]
         /\ errorCalls' = ScanOutcome(ok, restoreHandle)[3]
         /\ outcomes' = Settled("restore", IF ok THEN "scanOk" ELSE "scanError")
    /\ loading' = FALSE
    /\ isRestoring' = FALSE
    /\ restorePc' = "done"
    /\ UNCHANGED <<directoryHandle, directoryPath, supported, idb, idbQueue,
                   lsName, restoreHandle, grantPc, grantHandle, refreshPc,
                   refreshHandle, forgetPc>>

\* clearDirectoryHandle: the record after it settles.  "ok": the delete
\* succeeded; "openError": request.onerror, resolved ("Ignore errors");
\* "deleteError": deleteRequest.onerror, rejected.
ClearedRecord(outcome) == IF outcome = "ok" THEN NoHandle ELSE idb

ClearOutcomes == {"ok", "openError", "deleteError"}

\* clearDirectoryHandle settles; restoreDirectory ends (a rejection is caught
\* and logged by its catch)
RestoreCleared ==
    /\ TrackerOnly
    /\ restorePc = "clearing"
    /\ idbQueue # <<>> /\ Head(idbQueue) = "restore"
    /\ idbQueue' = Tail(idbQueue)
    /\ \E outcome \in ClearOutcomes :
         /\ idb' = ClearedRecord(outcome)
         /\ outcomes' = Settled("restore", outcome)
    /\ isRestoring' = FALSE
    /\ restorePc' = "done"
    /\ errorCalls' = 0
    /\ UNCHANGED <<files, loading, error, directoryHandle, directoryPath,
                   supported, lsName, restoreHandle, grantPc, grantHandle,
                   refreshPc, refreshHandle, forgetPc>>

\* ---- user actions ----

\* The buttons exist once the component has rendered with the platform
\* supported and the mount effect has run; while the native directory picker is
\* open the page takes no clicks.
PageTakesClicks == supported /\ restorePc # "mount" /\ grantPc # "picking"

\* "Pilih / Ganti Directory", disabled={loading}: openDirectoryPicker up to
\* `await showDirectoryPicker()`
GrantClick ==
    /\ TrackerOnly
    /\ PageTakesClicks
    /\ ~loading
    /\ grantPc = "idle"
    /\ loading' = TRUE
    /\ error' = ""
    /\ grantPc' = "picking"
    /\ outcomes' = Settled("grant", "none")
    /\ errorCalls' = 0
    /\ UNCHANGED <<files, directoryHandle, directoryPath, isRestoring,
                   supported, idb, idbQueue, lsName, restorePc, restoreHandle,
                   grantHandle, refreshPc, refreshHandle, forgetPc>>

UnsupportedMessage ==
    "File System Access API tidak didukung di browser ini. Gunakan Chrome/Edge versi terbaru."

\* openDirectoryPicker where isFileSystemAccessSupported() is false:
\* <<error, the handler's next position>>
UnsupportedGrantOpensPicker == <<"", "picking">>
UnsupportedGrant == <<UnsupportedMessage, "idle">>

\* openDirectoryPicker is called where the API is missing.  The page renders
\* a notice and no button there, so the call is made past the page.
GrantUnsupported ==
    /\ TrackerOnly
    /\ ~supported
    /\ restorePc # "mount"
    /\ grantPc = "idle"
    /\ error' = UnsupportedGrant[1]
    /\ grantPc' = UnsupportedGrant[2]
    /\ outcomes' = Settled("grant", "unsupported")
    /\ errorCalls' = 1
    /\ UNCHANGED <<files, loading, directoryHandle, directoryPath, isRestoring,
                   supported, idb, idbQueue, lsName, restorePc, restoreHandle,
                   grantHandle, refreshPc, refreshHandle, forgetPc>>

\* the user chooses a directory; openDirectoryPicker runs to
\* `await saveDirectoryHandle(handle)`
GrantPicked ==
    /\ TrackerOnly
    /\ grantPc = "picking"
    /\ \E d \in Dirs :
         /\ directoryHandle' = d
         /\ directoryPath' = HandleName(d)
         /\ lsName' = HandleName(d)
         /\ grantHandle' = d
    /\ outcomes' = Settled("grant", "picked")
    /\ idbQueue' = Append(idbQueue, "grant")
    /\ grantPc' = "saving"
    /\ errorCalls' = 0
    /\ UNCHANGED <<files, loading, error, isRestoring, supported, idb,
                   restorePc, restoreHandle, refreshPc, refreshHandle,
                   forgetPc>>

\* catch (err) { if (err.name !== 'AbortError') { setError(...) } }:
\* <<error, number of setError calls>> after it
PickerFailureSurfacesAbort(errName) == <<GrantErrorMessage, 1>>
PickerFailure(errName) ==
    IF errName # "AbortError" THEN <<GrantErrorMessage, 1>> ELSE <<error, 0>>

\* showDirectoryPicker rejects: the user dismissed it (AbortError) or the
\* browser refused (SecurityError); openDirectoryPicker ends
GrantRejected ==
    /\ TrackerOnly
    /\ grantPc = "picking"
    /\ \E errName \in {"AbortError", "SecurityError"} :
         /\ error' = PickerFailure(errName)[1]
         /\ errorCalls' = PickerFailure(errName)[2]
         /\ outcomes' = Settled("grant", errName)
    /\ loading' = FALSE
    /\ grantPc' = "idle"
    /\ UNCHANGED <<files, directoryHandle, directoryPath, isRestoring,
                   supported, idb, idbQueue, lsName, restorePc, restoreHandle,
                   grantHandle, refreshPc, refreshHandle, forgetPc>>

\* saveDirectoryHandle.  "ok": the put succeeded; "persistError":
\* navigator.storage.persist() threw inside the try, caught and logged, nothing
\* is stored; "openError" / "putError": the promise returned from inside the
\* try (not awaited there) rejects, so the catch of saveDirectoryHandle does
\* not see it and the rejection reaches the caller.
SaveOutcomes == {"ok", "persistError", "openError", "putError"}
SavedRecord(outcome, d) == IF outcome = "ok" THEN d ELSE idb
SaveRejects(outcome) == outcome \in {"openError", "putError"}

\* saveDirectoryHandle settles; openDirectoryPicker runs into
\* readDirectoryFiles(handle), or to its end through its catch
GrantSaved ==
    /\ TrackerOnly
    /\ grantPc = "saving"
    /\ idbQueue # <<>> /\ Head(idbQueue) = "grant"
    /\ idbQueue' = Tail(idbQueue)
    /\ \E outcome \in SaveOutcomes :
         /\ idb' = SavedRecord(outcome, grantHandle)
         /\ outcomes' = Settled("grant", outcome)
         /\ IF SaveRejects(outcome)
            THEN /\ error' = GrantErrorMessage
                 /\ errorCalls' = 1
                 /\ loading' = FALSE
                 /\ grantPc' = "idle"
                 /\ grantHandle' = NoHandle
            ELSE /\ loading' = TRUE
                 /\ grantPc' = "scanning"
                 /\ errorCalls' = 0
                 /\ UNCHANGED <<error, grantHandle>>
    /\ UNCHANGED <<files, directoryHandle, directoryPath, isRestoring,
                   supported, lsName, restorePc, restoreHandle, refreshPc,
                   refreshHandle, forgetPc>>

\* readDirectoryFiles(handle) ends; openDirectoryPicker ends
GrantScanned ==
    /\ TrackerOnly
    /\ grantPc = "scanning"
    /\ \E ok \in BOOLEAN :
         /\ files' = ScanOutcome(ok, grantHandle)[1]
         /\ error' = ScanOutcome(ok, grantHandle)[2]
         /\ errorCalls' = ScanOutcome(ok, grantHandle)[3]
         /\ outcomes' = Settled("grant", IF ok THEN "scanOk" ELSE "scanError")
    /\ loading' = FALSE
    /\ grantPc' = "idle"
    /\ grantHandle' = NoHandle
    /\ UNCHANGED <<directoryHandle, directoryPath, isRestoring, supported,
                   idb, idbQueue, lsName, restorePc, restoreHandle, refreshPc,
                   refreshHandle, forgetPc>>

\* "Refresh", rendered when directoryHandle is set, disabled={loading}:
\* refreshFiles into readDirectoryFiles(directoryHandle)
RefreshClick ==
    /\ TrackerOnly
    /\ PageTakesClicks
    /\ directoryHandle # NoHandle
    /\ ~loading
    /\ refreshPc = "idle"
    /\ loading' = TRUE
    /\ refreshHandle' = directoryHandle
    /\ refreshPc' = "scanning"
    /\ outcomes' = Settled("refresh", "none")
    /\ errorCalls' = 0
    /\ UNCHANGED <<files, error, directoryHandle, directoryPath, isRestoring,
                   supported, idb, idbQueue, lsName, restorePc, restoreHandle,
                   grantPc, grantHandle, forgetPc>>

\* readDirectoryFiles(directoryHandle) ends; refreshFiles ends
RefreshScanned ==
    /\ TrackerOnly
    /\ refreshPc = "scanning"
    /\ \E ok \in BOOLEAN :
         /\ files' = ScanOutcome(ok, refreshHandle)[1]
         /\ error' = ScanOutcome(ok, refreshHandle)[2]
         /\ errorCalls' = ScanOutcome(ok, refreshHandle)[3]
         /\ outcomes' = Settled("refresh", IF ok THEN "scanOk" ELSE "scanError")
    /\ loading' = FALSE
    /\ refreshPc' = "idle"
    /\ refreshHandle' = NoHandle
    /\ UNCHANGED <<directoryHandle, directoryPath, isRestoring, supported,
                   idb, idbQueue, lsName, restorePc, restoreHandle, grantPc,
                   grantHandle, forgetPc>>

\* "Hapus", rendered when directoryHandle is set, disabled={loading}: the
\* onClick handler up to `await clearDirectoryHandle()`
ForgetClick ==
    /\ TrackerOnly
    /\ PageTakesClicks
    /\ directoryHandle # NoHandle
    /\ ~loading
    /\ forgetPc = "idle"
    /\ directoryHandle' = NoHandle
    /\ directoryPath' = ""
    /\ files' = <<>>
    /\ idbQueue' = Append(idbQueue, "forget")
    /\ forgetPc' = "clearing"
    /\ outcomes' = Settled("forget", "none")
    /\ errorCalls' = 0
    /\ UNCHANGED <<loading, error, isRestoring, supported, idb, lsName,
                   restorePc, restoreHandle, grantPc, grantHandle, refreshPc,
                   refreshHandle>>

\* localStorage.removeItem('vmx_directory_name') after the await: skipped when
\* clearDirectoryHandle rejected
NameAfterForget(outcome) == IF outcome = "deleteError" THEN lsName ELSE NoName

\* clearDirectoryHandle settles; the onClick handler ends
ForgetCleared ==
    /\ TrackerOnly
    /\ forgetPc = "clearing"
    /\ idbQueue # <<>> /\ Head(idbQueue) = "forget"
    /\ idbQueue' = Tail(idbQueue)
    /\ \E outcome \in ClearOutcomes :
         /\ idb' = ClearedRecord(outcome)
         /\ lsName' = NameAfterForget(outcome)
         /\ outcomes' = Settled("forget", outcome)
    /\ forgetPc' = "idle"
    /\ errorCalls' = 0
    /\ UNCHANGED <<files, loading, error, directoryHandle, directoryPath,
                   isRestoring, supported, restorePc, restoreHandle, grantPc,
                   grantHandle, refreshPc, refreshHandle>>

-----------------------------------------------------------------------------
(***************************************************************************)
(* QueueView: the job list, the polling timer, cancelQueueItem             *)
(*                                                                         *)
(* The job list, on the server and on the screen, is a function from job   *)
(* ids to a status; "gone" is a job the list does not hold, so the empty   *)
(* list is EmptyList.                                                      *)
(***************************************************************************)
JobIds == {"j1", "j2"}
MaxFetches == 2
MaxCancels == 1

EmptyList == [j \in JobIds |-> "gone"]
FetchErrorMessage == "Failed to fetch queue"
CancelErrorMessage == "Failed to cancel queue"

\* the addresses the parent may pass as apiUrl
ApiUrls == {"urlA", "urlB"}
\* the address passed when the component is created
FirstUrl == "urlA"

QueueInit ==
    /\ queueItems = EmptyList
    /\ qLoading = TRUE
    /\ qError = ""
    /\ cancellingIds = {}
    /\ mounted = FALSE
    /\ unmounted = FALSE
    /\ apiUrl = FirstUrl
    /\ interval = {}
    /\ server \in [JobIds -> {"pending", "processing"}]
    /\ cancelsIssued = 0
    /\ fetches = {}
    /\ cancels = {}
    /\ errorTimers = 0
    /\ issued = 0
    /\ cancelClock = 0
    /\ awaiting = [j \in JobIds |-> 0]

\* fetchQueue up to `await fetch(...)`: the request it puts in flight.  owner is
\* "poll" (the effect or the timer) or the job whose cancel awaits it.
NewFetch(owner, clock, url) ==
    [seq |-> issued + 1, owner |-> owner, stage |-> "sent",
     body |-> EmptyList, clock |-> clock, url |-> url]

\* useEffect: fetchQueue(); setInterval(fetchQueue, 2000)
Mount ==
    /\ QueueOnly
    /\ ~mounted /\ ~unmounted
    /\ mounted' = TRUE
    /\ fetches' = fetches \cup {NewFetch("poll", cancelClock, apiUrl)}
    /\ issued' = issued + 1
    /\ interval' = interval \cup {apiUrl}
    /\ UNCHANGED <<queueItems, qLoading, qError, cancellingIds, unmounted,
                   apiUrl, server,
                   cancels, errorTimers, cancelsIssued, cancelClock, awaiting>>

\* the interval fires: fetchQueue up to `await fetch(...)`
Tick ==
    /\ QueueOnly
    /\ issued < MaxFetches
    /\ \E url \in interval :
         fetches' = fetches \cup {NewFetch("poll", cancelClock, url)}
    /\ issued' = issued + 1
    /\ UNCHANGED <<queueItems, qLoading, qError, cancellingIds, mounted, unmounted, apiUrl, interval,
                   server, cancels, errorTimers, cancelsIssued, cancelClock, awaiting>>

\* the effect's cleanup, `return () => clearInterval(interval)`: the timers
\* left by the cleanup of the effect run that polled url
ClearIntervalLeaks(url) == interval
ClearInterval(url) == interval \ {url}

\* the component is removed from the page: the effect's cleanup runs
Unmount ==
    /\ QueueOnly
    /\ mounted
    /\ mounted' = FALSE
    /\ unmounted' = TRUE
    /\ interval' = ClearInterval(apiUrl)
    /\ UNCHANGED <<queueItems, qLoading, qError, cancellingIds, apiUrl, server,
                   fetches, cancels, errorTimers, issued, cancelsIssued,
                   cancelClock, awaiting>>

\* the parent passes another apiUrl: the dependency [apiUrl] changed, so the
\* cleanup of the last run runs and then the effect runs again
ApiUrlChanges ==
    /\ QueueOnly
    /\ mounted
    /\ issued < MaxFetches
    /\ \E url \in ApiUrls \ {apiUrl} :
         /\ apiUrl' = url
         /\ interval' = ClearInterval(apiUrl) \cup {url}
         /\ fetches' = fetches \cup {NewFetch("poll", cancelClock, url)}
    /\ issued' = issued + 1
    /\ UNCHANGED <<queueItems, qLoading, qError, cancellingIds, mounted,
                   unmounted, server, cancels, errorTimers, cancelsIssued,
                   cancelClock, awaiting>>

\* the remote system runs a job on
ServerProgress ==
    /\ QueueOnly
    /\ \E j \in JobIds :
         /\ server[j] \in {"pending", "processing"}
         /\ server' = [server EXCEPT ![j] =
                          IF server[j] = "pending" THEN "processing" ELSE "completed"]
    /\ UNCHANGED <<queueItems, qLoading, qError, cancellingIds, mounted, unmounted, apiUrl, interval,
                   fetches, cancels, errorTimers, issued, cancelsIssued, cancelClock,
                   awaiting>>

\* GET /api/queue/list is answered: with the job table as it is now, or with a
\* failure (a network error, a status that is not ok)
ServerAnswersFetch ==
    /\ QueueOnly
    /\ \E f \in fetches :
         /\ f.stage = "sent"
         /\ \E ok \in BOOLEAN :
              fetches' = (fetches \ {f}) \cup
                  {IF ok THEN [f EXCEPT !.stage = "ok", !.body = server]
                         ELSE [f EXCEPT !.stage = "failed"]}
    /\ UNCHANGED <<queueItems, qLoading, qError, cancellingIds, mounted, unmounted, apiUrl, interval,
                   server, cancels, errorTimers, issued, cancelsIssued, cancelClock,
                   awaiting>>

\* fetchQueue after the await: try { setQueueItems(data); setError('') }
\* catch { setError(...) }.  <<queueItems, error>> after it.
FetchResultKeepsError(f) ==
    IF f.stage = "ok" THEN <<f.body, qError>> ELSE <<queueItems, FetchErrorMessage>>
FetchResult(f) ==
    IF f.stage = "ok" THEN <<f.body, "">> ELSE <<queueItems, FetchErrorMessage>>

\* the finally of cancelQueueItem: the flag of its job is deleted
FlagsAfterCancelKept(job) == cancellingIds
FlagsAfterCancel(job) == cancellingIds \ {job}

\* A response reaches fetchQueue, which runs to its end; when cancelQueueItem
\* awaits this fetch, it runs to its end too.
FetchSettles ==
    /\ QueueOnly
    /\ \E f \in fetches :
         /\ f.stage # "sent"
         /\ fetches' = fetches \ {f}
         /\ queueItems' = FetchResult(f)[1]
         /\ qError' = FetchResult(f)[2]
         /\ qLoading' = FALSE
         /\ cancellingIds' = IF f.owner \in JobIds
                             THEN FlagsAfterCancel(f.owner)
                             ELSE cancellingIds
         /\ awaiting' = IF f.stage = "ok"
                        THEN [j \in JobIds |-> 0]
                        ELSE awaiting
    /\ UNCHANGED <<mounted, unmounted, apiUrl, interval, server, cancels, errorTimers, issued, cancelsIssued,
                   cancelClock>>

\* the button of job j, "Batalkan" or "Hapus" by its status, takes a click:
\* disabled={cancellingIds.has(item.id)}
ButtonEnabledAlways(j) == TRUE
ButtonEnabled(j) == j \notin cancellingIds

\* the page shows the list (not "Memuat queue..."), job j is in it, and its
\* button takes a click
CancelOffered(j) ==
    /\ mounted
    /\ ~qLoading
    /\ queueItems[j] # "gone"
    /\ ButtonEnabled(j)

\* a click on the button of a listed job, confirmed: cancelQueueItem up to
\* `await fetch(...)`
CancelClick ==
    /\ QueueOnly
    /\ cancelsIssued < MaxCancels
    /\ cancelsIssued' = cancelsIssued + 1
    /\ \E j \in JobIds :
         /\ CancelOffered(j)
         /\ cancellingIds' = cancellingIds \cup {j}
         /\ cancels' = cancels \cup {[job |-> j, stage |-> "sent", url |-> apiUrl]}
    /\ UNCHANGED <<queueItems, qLoading, qError, mounted, unmounted, apiUrl, interval, server, fetches,
                   errorTimers, issued, cancelClock, awaiting>>

\* what the remote system does with a cancel it accepts: a waiting or running
\* job is cancelled, a finished one is removed
ServerCancel(j) ==
    [server EXCEPT ![j] =
        IF server[j] \in {"pending", "processing"} THEN "cancelled" ELSE "gone"]

\* DELETE /api/queue/cancel is answered: accepted, or refused / failed
ServerAnswersCancel ==
    /\ QueueOnly
    /\ \E c \in cancels :
         /\ c.stage = "sent"
         /\ \E ok \in BOOLEAN :
              /\ cancels' = (cancels \ {c}) \cup
                     {[c EXCEPT !.stage = IF ok THEN "ok" ELSE "failed"]}
              /\ server' = IF ok THEN ServerCancel(c.job) ELSE server
    /\ UNCHANGED <<queueItems, qLoading, qError, cancellingIds, mounted, unmounted, apiUrl, interval,
                   fetches, errorTimers, issued, cancelsIssued, cancelClock,
                   awaiting>>

\* cancelQueueItem after a response that is ok: the job list it leaves, and
\* the fetches it issues (`await fetchQueue()`)
ItemsMarkedCancelled(j) == [queueItems EXCEPT ![j] = "cancelled"]
ItemsAfterCancel(j) == queueItems

ForcedFetch(j, clock, url) == {NewFetch(j, clock, url)}

\* cancelQueueItem's catch: setError(message); setTimeout(() => setError(''),
\* 5000).  <<error, pending timers>> after it.
CancelFailureNoTimer == <<CancelErrorMessage, errorTimers>>
CancelFailure == <<CancelErrorMessage, errorTimers + 1>>

\* The cancel response reaches cancelQueueItem.  ok: it runs into fetchQueue,
\* to that function's await.  Otherwise: catch { setError(...);
\* setTimeout(() => setError(''), 5000) } finally { delete the flag }.
CancelSettles ==
    /\ QueueOnly
    /\ \E c \in cancels :
         /\ c.stage # "sent"
         /\ cancels' = cancels \ {c}
         /\ IF c.stage = "ok"
            THEN LET forced == ForcedFetch(c.job, cancelClock + 1, c.url) IN
                 /\ cancelClock' = cancelClock + 1
                 /\ awaiting' = [awaiting EXCEPT ![c.job] = cancelClock + 1]
                 /\ queueItems' = ItemsAfterCancel(c.job)
                 /\ fetches' = fetches \cup forced
                 /\ issued' = issued + Cardinality(forced)
                 /\ cancellingIds' = IF forced = {}
                                     THEN FlagsAfterCancel(c.job)
                                     ELSE cancellingIds
                 /\ UNCHANGED <<qError, errorTimers>>
            ELSE /\ qError' = CancelFailure[1]
                 /\ errorTimers' = CancelFailure[2]
                 /\ cancellingIds' = FlagsAfterCancel(c.job)
                 /\ UNCHANGED <<queueItems, fetches, issued, cancelClock,
                                awaiting>>
    /\ UNCHANGED <<qLoading, mounted, unmounted, apiUrl, interval, server, cancelsIssued>>

\* the timer's callback, () => setError(''): the message after it
\* (a variant that erases only the message of a failed cancel)
ErrorAfterTimerOwnOnly == IF qError = CancelErrorMessage THEN "" ELSE qError
ErrorAfterTimer == ""

\* setTimeout(() => setError(''), 5000) fires
ErrorTimerFires ==
    /\ QueueOnly
    /\ errorTimers > 0
    /\ errorTimers' = errorTimers - 1
    /\ qError' = ErrorAfterTimer
    /\ UNCHANGED <<queueItems, qLoading, cancellingIds, mounted, unmounted, apiUrl, interval, server,
                   fetches, cancels, issued, cancelsIssued, cancelClock, awaiting>>

-----------------------------------------------------------------------------
(***************************************************************************)
(* The progress block of a listed file: the percentage label and the bar.  *)
(* JavaScript numbers are modelled as exact fractions <<n, d>>, d > 0, in  *)
(* lowest terms.                                                           *)
(***************************************************************************)
Abs(x) == IF x < 0 THEN -x ELSE x

RECURSIVE GCD(_, _)
GCD(a, b) == IF b = 0 THEN a ELSE GCD(b, a % b)

Rat(n, d) ==
    LET g == GCD(Abs(n), Abs(d))
        sign == IF d < 0 THEN -1 ELSE 1
    IN  <<sign * (n \div g), sign * (d \div g)>>

\* a * b and a / b, reducing crosswise before multiplying
RatMul(a, b) ==
    LET x == Rat(a[1], b[2])
        y == Rat(b[1], a[2])
    IN  Rat(x[1] * y[1], x[2] * y[2])
RatDiv(a, b) == RatMul(a, <<b[2], b[1]>>)

RatLeq(a, b) == a[1] * b[2] <= b[1] * a[2]
\* Math.min, Math.max
RatMin(a, b) == IF RatLeq(a, b) THEN a ELSE b
RatMax(a, b) == IF RatLeq(a, b) THEN b ELSE a
\* Math.round: the nearest integer, a half rounding up
Round(a) == (2 * a[1] + a[2]) \div (2 * a[2])

\* outTimeMs / 1000000.0
MicrosPerSecond == 1000000

\* (currentTimeSeconds / totalDuration) * 100
TimeRatio(outTimeMs, totalDuration) ==
    RatMul(RatDiv(Rat(outTimeMs, MicrosPerSecond), Rat(totalDuration, 1)),
           Rat(100, 1))

\* const percentage = Math.min(ratio, 100)
PercentageUnclamped(outTimeMs, totalDuration) ==
    TimeRatio(outTimeMs, totalDuration)
Percentage(outTimeMs, totalDuration) ==
    RatMin(TimeRatio(outTimeMs, totalDuration), Rat(100, 1))

\* the label's function, called when data and target are both there
PercentLabel(data, target) ==
    IF data.progress = "end" THEN 100
    ELSE IF target["totalDuration"][1] > 0 /\ data.outTimeMs > 0
         THEN Round(Percentage(data.outTimeMs, target["totalDuration"][1]))
         ELSE 0

\* the function of the bar's width
BarWidth(data, target) ==
    IF data.progress = "end" THEN Rat(100, 1)
    ELSE IF target["totalDuration"][1] > 0 /\ data.outTimeMs > 0
         THEN RatMax(Rat(0, 1),
                     RatMin(Percentage(data.outTimeMs,
                                       target["totalDuration"][1]),
                            Rat(100, 1)))
         ELSE Rat(0, 1)

\* {file.progressTarget && file.progressData && (...)}: the bar and its label
\* are rendered when both are there
BarShown(data, target) == target # Null /\ data # Null

\* the values of out_time_ms and total_duration tried
OutTimes ==
    {-5000000, 0, 1, 5000, 15000, 500000, 1000000, 1500000, 60000000,
     119400000, 120000000, 200000000}
Durations == {-1, 1, 2, 3, 120}

\* what parseProgressFile and parseProgressTargetFile return for such files
SnapshotOf(progress, outTimeMs) ==
    [NewProgress("1") EXCEPT !.progress = progress, !.outTimeMs = outTimeMs]
TargetOf(totalDuration) ==
    [EmptyTarget EXCEPT !["queueId"] = Some("q1"),
                        !["totalDuration"] = Some(totalDuration),
                        !["totalFrames"] = Some(7)]

RenderInit ==
    /\ rData \in {Null} \cup
          {Some(SnapshotOf(p, o)) : p \in {"continue", "end"}, o \in OutTimes}
    /\ rTarget \in {Null} \cup
          {Some(TargetOf(d)) : d \in {x \in Durations : TargetValid(TargetOf(x))}}
    /\ rPc = "ready"
    /\ rLabel = Null
    /\ rBar = Null

\* the progress block is rendered
Render ==
    /\ RenderOnly
    /\ rPc = "ready"
    /\ rPc' = "done"
    /\ IF BarShown(rData, rTarget)
       THEN /\ rLabel' = Some(PercentLabel(rData[1], rTarget[1]))
            /\ rBar' = Some(BarWidth(rData[1], rTarget[1]))
       ELSE /\ rLabel' = Null
            /\ rBar' = Null
    /\ UNCHANGED <<rData, rTarget>>

-----------------------------------------------------------------------------
(***************************************************************************)
(* The handle store: saveDirectoryHandle, restoreDirectoryHandle and       *)
(* clearDirectoryHandle on the IndexedDB database, call by call.  IndexedDB*)
(* runs the requests of one database in the order they were made, so a     *)
(* call is one step.                                                       *)
(***************************************************************************)
MaxCalls == 3

\* store.put(handle, 'directory_handle') / store.get / store.delete
HandleKey == "directory_handle"

EmptyStore == [k \in {} |-> NoHandle]

PutIfAbsent(store, key, value) ==
    [k \in DOMAIN store \cup {key} |->
        IF k \in DOMAIN store THEN store[k] ELSE value]
Put(store, key, value) ==
    [k \in DOMAIN store \cup {key} |-> IF k = key THEN value ELSE store[k]]

\* getRequest.result: undefined for a missing key, which the code turns to null
Get(store, key) == IF key \in DOMAIN store THEN store[key] ELSE NoHandle

Delete(store, key) == [k \in DOMAIN store \ {key} |-> store[k]]

\* indexedDB.open(dbName, 1) succeeds: onupgradeneeded creates the object
\* store 'handles' when the database is new
Opened(db) == IF db = Null THEN EmptyStore ELSE db[1]

\* saveDirectoryHandle(handle): <<database, how the promise settles>>
saveDirectoryHandle(db, handle, outcome) ==
    CASE outcome = "persistError" -> <<db, "resolved">>
      [] outcome = "openError" -> <<db, "rejected">>
      [] outcome = "putError" -> <<Some(Opened(db)), "rejected">>
      [] OTHER -> <<Some(Put(Opened(db), HandleKey, handle)), "resolved">>

\* restoreDirectoryHandle(): <<database, how the promise settles, its value>>
RestoreOutcomes == {"ok", "openError", "getError"}
restoreRejectsOnError(db, outcome) ==
    CASE outcome = "openError" -> <<db, "rejected", NoHandle>>
      [] outcome = "getError" -> <<Some(Opened(db)), "rejected", NoHandle>>
      [] OTHER -> <<Some(Opened(db)), "resolved", Get(Opened(db), HandleKey)>>
restoreDirectoryHandle(db, outcome) ==
    CASE outcome = "openError" -> <<db, "resolved", NoHandle>>
      [] outcome = "getError" -> <<Some(Opened(db)), "resolved", NoHandle>>
      [] OTHER -> <<Some(Opened(db)), "resolved", Get(Opened(db), HandleKey)>>

\* clearDirectoryHandle(): <<database, how the promise settles>>
clearDirectoryHandle(db, outcome) ==
    CASE outcome = "openError" -> <<db, "resolved">>
      [] outcome = "deleteError" -> <<Some(Opened(db)), "rejected">>
      [] OTHER -> <<Some(Delete(Opened(db), HandleKey)), "resolved">>

StoreInit ==
    /\ hsDb \in {Null, Some(EmptyStore)}
                 \cup {Some(Put(EmptyStore, HandleKey, d)) : d \in Dirs}
    /\ hsFirst = hsDb
    /\ hsLog = <<>>
    /\ hsSession = "first"

\* one entry of the log of calls
Called(op, arg, outcome, settled, value) ==
    [op |-> op, arg |-> arg, outcome |-> outcome, settled |-> settled,
     value |-> value, before |-> hsDb, session |-> hsSession]

StoreSave ==
    /\ StoreOnly
    /\ Len(hsLog) < MaxCalls
    /\ \E d \in Dirs, outcome \in SaveOutcomes :
         LET r == saveDirectoryHandle(hsDb, d, outcome) IN
         /\ hsDb' = r[1]
         /\ hsLog' = Append(hsLog, Called("save", d, outcome, r[2], NoHandle))
    /\ UNCHANGED <<hsFirst, hsSession>>

StoreLoad ==
    /\ StoreOnly
    /\ Len(hsLog) < MaxCalls
    /\ \E outcome \in RestoreOutcomes :
         LET r == restoreDirectoryHandle(hsDb, outcome) IN
         /\ hsDb' = r[1]
         /\ hsLog' = Append(hsLog, Called("load", NoHandle, outcome, r[2], r[3]))
    /\ UNCHANGED <<hsFirst, hsSession>>

StoreClear ==
    /\ StoreOnly
    /\ Len(hsLog) < MaxCalls
    /\ \E outcome \in ClearOutcomes :
         LET r == clearDirectoryHandle(hsDb, outcome) IN
         /\ hsDb' = r[1]
         /\ hsLog' = Append(hsLog, Called("clear", NoHandle, outcome, r[2], NoHandle))
    /\ UNCHANGED <<hsFirst, hsSession>>

\* the page is closed and opened again: the database stays
StoreReload ==
    /\ StoreOnly
    /\ hsSession = "first"
    /\ hsSession' = "later"
    /\ UNCHANGED <<hsDb, hsFirst, hsLog>>

-----------------------------------------------------------------------------
(***************************************************************************)
(* The API URL.  VideoMixer keeps its own apiUrl state, read from          *)
(* localStorage when it mounts and written there by Simpan and Reset.      *)
(* Home keeps another apiUrl state, read from localStorage when the page   *)
(* loads and handed to QueueView.  Home shows one of the two components at *)
(* a time.                                                                 *)
(***************************************************************************)
DefaultApiUrl == "http://localhost:8080"
TypedUrls == {"", "https://a.example", "https://b.example"}
EnvUrls == {Null, Some(""), Some("https://env.example")}

\* process.env.NEXT_PUBLIC_API_URL || 'http://localhost:8080'
API_BASE_URL == IF TruthyString(envApiUrl) THEN envApiUrl[1] ELSE DefaultApiUrl

\* getInitialApiUrl(), given localStorage.getItem('vmx_api_url')
getInitialApiUrl(saved) ==
    IF TruthyString(saved) THEN saved[1] ELSE API_BASE_URL

Request(kind, url) == [kind |-> kind, url |-> url]

ConfigInit ==
    /\ envApiUrl \in EnvUrls
    /\ localStorageUrl \in {Null} \cup {Some(u) : u \in TypedUrls}
    /\ homeApiUrl = getInitialApiUrl(localStorageUrl)
    /\ mixerApiUrl = getInitialApiUrl(localStorageUrl)
    /\ activeTab = "mixer"
    /\ buildUrl = Null
    /\ requests = {Request("health", mixerApiUrl)}
    /\ savedUrl = Null
    /\ started = TRUE

\* the page is loaded again: Home and VideoMixer mount, the mount effect
\* checks the API's health; a build in flight is gone with the page
PageReload ==
    /\ ConfigOnly
    /\ homeApiUrl' = getInitialApiUrl(localStorageUrl)
    /\ mixerApiUrl' = getInitialApiUrl(localStorageUrl)
    /\ activeTab' = "mixer"
    /\ buildUrl' = Null
    /\ requests' = {Request("health", mixerApiUrl')}
    /\ started' = TRUE
    /\ UNCHANGED <<envApiUrl, localStorageUrl, savedUrl>>

\* the config field's onChange: setApiUrl(e.target.value); checkApiHealth
\* changes with apiUrl, so the health effect runs again
TypeUrl ==
    /\ ConfigOnly
    /\ activeTab = "mixer"
    /\ \E u \in TypedUrls :
         /\ u # mixerApiUrl
         /\ mixerApiUrl' = u
         /\ requests' = {Request("health", u)}
    /\ savedUrl' = Null
    /\ started' = FALSE
    /\ UNCHANGED <<envApiUrl, localStorageUrl, homeApiUrl, activeTab, buildUrl>>

\* Simpan: saveApiUrl(apiUrl) stores the URL, sets the state to the value
\* it already has and calls this render's checkApiHealth
Simpan ==
    /\ ConfigOnly
    /\ activeTab = "mixer"
    /\ localStorageUrl' = Some(mixerApiUrl)
    /\ requests' = {Request("health", mixerApiUrl)}
    /\ savedUrl' = Some(mixerApiUrl)
    /\ started' = FALSE
    /\ UNCHANGED <<envApiUrl, homeApiUrl, mixerApiUrl, activeTab, buildUrl>>

\* Reset: setApiUrl(API_BASE_URL); saveApiUrl(API_BASE_URL).  The
\* checkApiHealth called by saveApiUrl is this render's, with the URL shown
\* before the click; the effect checks the new URL when the state changed
ResetUrl ==
    /\ ConfigOnly
    /\ activeTab = "mixer"
    /\ localStorageUrl' = Some(API_BASE_URL)
    /\ mixerApiUrl' = API_BASE_URL
    /\ requests' = {Request("health", mixerApiUrl)}
                     \cup (IF mixerApiUrl # API_BASE_URL
                           THEN {Request("health", API_BASE_URL)} ELSE {})
    /\ savedUrl' = Null
    /\ started' = FALSE
    /\ UNCHANGED <<envApiUrl, homeApiUrl, activeTab, buildUrl>>

\* the 5 s interval of the health effect, or the Refresh button
HealthCheck ==
    /\ ConfigOnly
    /\ activeTab = "mixer"
    /\ requests' = {Request("health", mixerApiUrl)}
    /\ started' = FALSE
    /\ UNCHANGED <<envApiUrl, localStorageUrl, homeApiUrl, mixerApiUrl,
                   activeTab, buildUrl, savedUrl>>

\* buildVideo up to its await: the health check of the render it ran in
BuildStart ==
    /\ ConfigOnly
    /\ activeTab = "mixer"
    /\ buildUrl = Null
    /\ buildUrl' = Some(mixerApiUrl)
    /\ requests' = {Request("health", mixerApiUrl)}
    /\ started' = FALSE
    /\ UNCHANGED <<envApiUrl, localStorageUrl, homeApiUrl, mixerApiUrl,
                   activeTab, savedUrl>>

\* the health check answered: healthy, and the join request is sent to the
\* same render's apiUrl; or not healthy, and buildVideo throws
BuildSend ==
    /\ ConfigOnly
    /\ buildUrl # Null
    /\ \E isHealthy \in BOOLEAN :
         requests' = IF isHealthy THEN {Request("build", buildUrl[1])} ELSE {}
    /\ buildUrl' = Null
    /\ started' = FALSE
    /\ UNCHANGED <<envApiUrl, localStorageUrl, homeApiUrl, mixerApiUrl,
                   activeTab, savedUrl>>

\* the Queue tab: VideoMixer unmounts, QueueView mounts with Home's apiUrl
\* and fetches the list
ShowQueue ==
    /\ ConfigOnly
    /\ activeTab = "mixer"
    /\ activeTab' = "queue"
    /\ requests' = {Request("list", homeApiUrl)}
    /\ started' = FALSE
    /\ UNCHANGED <<envApiUrl, localStorageUrl, homeApiUrl, mixerApiUrl,
                   buildUrl, savedUrl>>

\* the Video Mixer tab: VideoMixer mounts again and reads the stored URL
ShowMixer ==
    /\ ConfigOnly
    /\ activeTab = "queue"
    /\ activeTab' = "mixer"
    /\ mixerApiUrl' = getInitialApiUrl(localStorageUrl)
    /\ requests' = {Request("health", mixerApiUrl')}
    /\ started' = FALSE
    /\ UNCHANGED <<envApiUrl, localStorageUrl, homeApiUrl, buildUrl, savedUrl>>

\* QueueView's polling timer, or a cancel click
QueueRequest ==
    /\ ConfigOnly
    /\ activeTab = "queue"
    /\ \E kind \in {"list", "cancel"} :
         requests' = {Request(kind, homeApiUrl)}
    /\ started' = FALSE
    /\ UNCHANGED <<envApiUrl, localStorageUrl, homeApiUrl, mixerApiUrl,
                   activeTab, buildUrl, savedUrl>>

-----------------------------------------------------------------------------
(***************************************************************************)
(* The audio list of VideoMixer.                                           *)
(***************************************************************************)
MaxAudio == 3
AudioIds == 1..MaxAudio
AudioNames == {"a.mp3", "b.mp3"}
UnknownId == 0
AudioFile == [id : AudioIds, name : AudioNames]

\* prev.findIndex(f => f.id === id), 0 for -1
RECURSIVE FindIndexFrom(_, _, _)
FindIndexFrom(list, id, i) ==
    IF i > Len(list) THEN 0
    ELSE IF list[i].id = id THEN i ELSE FindIndexFrom(list, id, i + 1)

findIndex(list, id) == FindIndexFrom(list, id, 1)

\* [list[i], list[j]] = [list[j], list[i]]
Swapped(list, i, j) ==
    [k \in 1..Len(list) |->
        IF k = i THEN list[j] ELSE IF k = j THEN list[i] ELSE list[k]]

\* (a variant that copies the neighbour over the item instead of swapping)
moveAudioFileCopies(prev, id, direction) ==
    LET index == findIndex(prev, id) IN
    IF index = 0 THEN prev
    ELSE IF direction = "up" /\ index = 1 THEN prev
    ELSE IF direction = "down" /\ index = Len(prev) THEN prev
    ELSE LET targetIndex == IF direction = "up" THEN index - 1 ELSE index + 1
         IN  [prev EXCEPT ![index] = prev[targetIndex]]

\* the updater of moveAudioFile(id, direction)
moveAudioFile(prev, id, direction) ==
    LET index == findIndex(prev, id) IN
    IF index = 0 THEN prev
    ELSE IF direction = "up" /\ index = 1 THEN prev
    ELSE IF direction = "down" /\ index = Len(prev) THEN prev
    ELSE LET targetIndex == IF direction = "up" THEN index - 1 ELSE index + 1
         IN  Swapped(prev, index, targetIndex)

\* the Fisher-Yates loop from position i down to the second item: every list
\* it can return, j being any of the first i positions
RECURSIVE Shuffles(_, _)
Shuffles(shuffled, i) ==
    IF i <= 1 THEN {shuffled}
    ELSE UNION {Shuffles(Swapped(shuffled, i, j), i - 1) : j \in 1..i}

\* the lists randomizeAudioFiles() can leave
randomizeAudioFiles(prev) ==
    IF Len(prev) <= 1 THEN {prev} ELSE Shuffles(prev, Len(prev))

\* the ids are random strings, taken as distinct; they are numbered here in
\* upload order
Ascending(list) ==
    \A i, j \in 1..Len(list) : i < j => list[i].id < list[j].id

AudioLists ==
    {l \in UNION {[1..n -> AudioFile] : n \in 0..MaxAudio} : Ascending(l)}

NoCall == [op |-> "none", id |-> UnknownId, direction |-> "up", prev |-> <<>>]

AudioInit ==
    /\ audioFiles \in AudioLists
    /\ audioFirst = audioFiles
    /\ audioCall = NoCall

MoveAudioFile ==
    /\ AudioOnly
    /\ \E id \in AudioIds \cup {UnknownId}, direction \in {"up", "down"} :
         /\ audioFiles' = moveAudioFile(audioFiles, id, direction)
         /\ audioCall' = [op |-> "move", id |-> id, direction |-> direction,
                          prev |-> audioFiles]
    /\ UNCHANGED audioFirst

RandomizeAudioFiles ==
    /\ AudioOnly
    /\ audioFiles' \in randomizeAudioFiles(audioFiles)
    /\ audioCall' = [op |-> "randomize", id |-> UnknownId, direction |-> "up",
                     prev |-> audioFiles]
    /\ UNCHANGED audioFirst

-----------------------------------------------------------------------------
(* VideoMixer's encoder and preset controls (src/components/VideoMixer.tsx) *)

Encoders == {"cpu", "nvenc", "qsv", "amf", "vaapi", "videotoolbox"}

\* the <option>s the preset select renders for an encoder
PresetOptions(e) ==
    CASE e = "cpu" -> {"ultrafast", "superfast", "veryfast", "faster", "fast",
                       "medium", "slow", "slower", "veryslow"}
      [] e = "nvenc" -> {"p1", "p2", "p3", "p4", "p5", "p6", "p7"}
      [] e = "qsv" -> {"veryfast", "faster", "fast", "medium", "slow",
                       "slower", "veryslow"}
      [] e = "amf" -> {"speed", "balanced", "quality"}
      [] e = "vaapi" -> {"fast", "medium", "slow"}
      [] e = "videotoolbox" -> {"ultrafast", "fast", "medium", "slow"}
      [] OTHER -> {}

\* the if / else if chain of the encoder select's onChange
\* (a variant that resets to "medium" whatever the encoder)
DefaultPresetAlwaysMedium(e) == "medium"
DefaultPreset(e) ==
    CASE e = "cpu" -> "medium"
      [] e = "nvenc" -> "p4"
      [] e = "qsv" -> "medium"
      [] e = "amf" -> "balanced"
      [] e = "vaapi" -> "medium"
      [] e = "videotoolbox" -> "medium"

FormInit ==
    encoder = "cpu" /\ preset = "medium" /\ mode = "black-screen"
    /\ buildQuery = Null

\* onChange of the encoder select: the user picks another <option>
ChangeEncoder ==
    /\ FormOnly
    /\ \E e \in Encoders \ {encoder} :
         /\ encoder' = e
         /\ preset' = DefaultPreset(e)
    /\ UNCHANGED <<mode, buildQuery>>

\* onChange of the preset select: the user picks another of the <option>s
\* rendered for the current encoder
ChangePreset ==
    /\ FormOnly
    /\ \E p \in PresetOptions(encoder) \ {preset} : preset' = p
    /\ UNCHANGED <<encoder, mode, buildQuery>>

\* onChange of the two mode radio buttons
ChangeMode ==
    /\ FormOnly
    /\ \E m \in {"black-screen", "video-loop"} \ {mode} : mode' = m
    /\ UNCHANGED <<encoder, preset, buildQuery>>

\* buildVideo, as far as the query string of its url: the handler reads mode,
\* encoder and preset of the render in which the button was clicked
BuildVideo ==
    /\ FormOnly
    /\ buildQuery' = Some([mode |-> mode, encoder |-> encoder,
                           preset |-> preset])
    /\ UNCHANGED <<encoder, preset, mode>>

-----------------------------------------------------------------------------
(***************************************************************************)
(* The specifications.  Each runs one component; the others rest.          *)
(***************************************************************************)
ParserRests ==
    /\ pText = <<>> /\ pPc = "done" /\ pResult = Null
    /\ tText = <<>> /\ tPc = "done" /\ tResult = Null

ScannerRests ==
    sEntries = <<>> /\ sPc = "done" /\ sFiles = <<>> /\ sError = ""

TrackerRests ==
    /\ files = <<>> /\ loading = FALSE /\ error = ""
    /\ directoryHandle = NoHandle /\ directoryPath = "" /\ isRestoring = FALSE
    /\ supported = FALSE /\ idb = NoHandle /\ idbQueue = <<>> /\ lsName = NoName
    /\ restorePc = "done" /\ restoreHandle = NoHandle
    /\ grantPc = "idle" /\ grantHandle = NoHandle
    /\ refreshPc = "idle" /\ refreshHandle = NoHandle
    /\ forgetPc = "idle" /\ errorCalls = 0 /\ outcomes = NoOutcomes

RenderRests ==
    /\ rData = Null /\ rTarget = Null /\ rPc = "done"
    /\ rLabel = Null /\ rBar = Null

StoreRests ==
    hsDb = Null /\ hsFirst = Null /\ hsLog = <<>> /\ hsSession = "first"

ConfigRests ==
    /\ envApiUrl = Null /\ localStorageUrl = Null
    /\ homeApiUrl = DefaultApiUrl /\ mixerApiUrl = DefaultApiUrl
    /\ activeTab = "mixer" /\ buildUrl = Null /\ requests = {}
    /\ savedUrl = Null /\ started = FALSE

AudioRests == audioFiles = <<>> /\ audioFirst = <<>> /\ audioCall = NoCall

FormRests ==
    encoder = "cpu" /\ preset = "medium" /\ mode = "black-screen"
    /\ buildQuery = Null

QueueRests ==
    /\ queueItems = EmptyList /\ qLoading = TRUE /\ qError = ""
    /\ cancellingIds = {} /\ mounted = FALSE /\ server = EmptyList
    /\ unmounted = FALSE /\ apiUrl = "urlA" /\ interval = {}
    /\ fetches = {} /\ cancels = {} /\ errorTimers = 0 /\ issued = 0
    /\ cancelsIssued = 0 /\ cancelClock = 0 /\ awaiting = [j \in JobIds |-> 0]

ParserNext ==
    \/ Parse
    \/ ParseTarget

InitParser ==
    ParserInit /\ ScannerRests /\ TrackerRests /\ QueueRests /\ RenderRests
    /\ StoreRests /\ ConfigRests /\ AudioRests /\ FormRests

SpecParser == InitParser /\ [][ParserNext]_vars

ScannerNext == Scan

InitScanner ==
    ScannerInit /\ ParserRests /\ TrackerRests /\ QueueRests /\ RenderRests
    /\ StoreRests /\ ConfigRests /\ AudioRests /\ FormRests

SpecScanner == InitScanner /\ [][ScannerNext]_vars

InitScanRead ==
    ScanReadInit /\ ParserRests /\ TrackerRests /\ QueueRests /\ RenderRests
    /\ StoreRests /\ ConfigRests /\ AudioRests /\ FormRests

SpecScanRead == InitScanRead /\ [][ScannerNext]_vars

TrackerNext ==
    \/ RestoreStart
    \/ RestoreLoaded
    \/ RestoreVerified
    \/ RestoreScanned
    \/ RestoreCleared
    \/ GrantClick
    \/ GrantUnsupported
    \/ GrantPicked
    \/ GrantRejected
    \/ GrantSaved
    \/ GrantScanned
    \/ RefreshClick
    \/ RefreshScanned
    \/ ForgetClick
    \/ ForgetCleared

InitTracker ==
    TrackerInit /\ ParserRests /\ ScannerRests /\ QueueRests /\ RenderRests
    /\ StoreRests /\ ConfigRests /\ AudioRests /\ FormRests

SpecTracker == InitTracker /\ [][TrackerNext]_vars

\* What the platform guarantees: the mount effect runs, every IndexedDB
\* request fires onsuccess or onerror, every directory enumeration ends or
\* throws.  Nothing obliges the user to click or to close the picker.
TrackerFairness ==
    /\ WF_vars(RestoreStart)
    /\ WF_vars(RestoreLoaded)
    /\ WF_vars(RestoreVerified)
    /\ WF_vars(RestoreScanned)
    /\ WF_vars(RestoreCleared)
    /\ WF_vars(GrantSaved)
    /\ WF_vars(GrantScanned)
    /\ WF_vars(RefreshScanned)
    /\ WF_vars(ForgetCleared)

SpecTrackerFair == InitTracker /\ [][TrackerNext]_vars /\ TrackerFairness

QueueNext ==
    \/ Mount
    \/ Tick
    \/ ServerProgress
    \/ ServerAnswersFetch
    \/ FetchSettles
    \/ CancelClick
    \/ ServerAnswersCancel
    \/ CancelSettles
    \/ ErrorTimerFires

InitQueue ==
    QueueInit /\ ParserRests /\ ScannerRests /\ TrackerRests /\ RenderRests
    /\ StoreRests /\ ConfigRests /\ AudioRests /\ FormRests

\* The polling loop over the component's life: mounted, handed another
\* apiUrl, removed; no cancel is clicked.
PollerNext ==
    \/ Mount
    \/ Tick
    \/ Unmount
    \/ ApiUrlChanges
    \/ ServerProgress
    \/ ServerAnswersFetch
    \/ FetchSettles

InitPoller ==
    QueueInit /\ ParserRests /\ ScannerRests /\ TrackerRests /\ RenderRests
    /\ StoreRests /\ ConfigRests /\ AudioRests /\ FormRests

SpecPoller == InitPoller /\ [][PollerNext]_vars

SpecQueue == InitQueue /\ [][QueueNext]_vars

StoreNext ==
    \/ StoreSave
    \/ StoreLoad
    \/ StoreClear
    \/ StoreReload

InitStore ==
    StoreInit /\ ParserRests /\ ScannerRests /\ TrackerRests /\ QueueRests
    /\ RenderRests /\ ConfigRests /\ AudioRests /\ FormRests

SpecStore == InitStore /\ [][StoreNext]_vars

ConfigNext ==
    \/ PageReload
    \/ TypeUrl
    \/ Simpan
    \/ ResetUrl
    \/ HealthCheck
    \/ BuildStart
    \/ BuildSend
    \/ ShowQueue
    \/ ShowMixer
    \/ QueueRequest

InitConfig ==
    ConfigInit /\ ParserRests /\ ScannerRests /\ TrackerRests /\ QueueRests
    /\ RenderRests /\ StoreRests /\ AudioRests /\ FormRests

SpecConfig == InitConfig /\ [][ConfigNext]_vars

AudioNext ==
    \/ MoveAudioFile
    \/ RandomizeAudioFiles

InitAudio ==
    AudioInit /\ ParserRests /\ ScannerRests /\ TrackerRests /\ QueueRests
    /\ RenderRests /\ StoreRests /\ ConfigRests /\ FormRests

SpecAudio == InitAudio /\ [][AudioNext]_vars

FormNext ==
    \/ ChangeEncoder
    \/ ChangePreset
    \/ ChangeMode
    \/ BuildVideo

InitForm ==
    FormInit /\ ParserRests /\ ScannerRests /\ TrackerRests /\ QueueRests
    /\ RenderRests /\ StoreRests /\ ConfigRests /\ AudioRests

SpecForm == InitForm /\ [][FormNext]_vars

RenderNext == Render

InitRender ==
    RenderInit /\ ParserRests /\ ScannerRests /\ TrackerRests /\ QueueRests
    /\ StoreRests /\ ConfigRests /\ AudioRests /\ FormRests

SpecRender == InitRender /\ [][RenderNext]_vars

\* Every request sent is answered, and a handler whose response has come
\* runs on.  Nothing is assumed of the user or of the timers.
QueueFairness ==
    /\ WF_vars(ServerAnswersFetch)
    /\ WF_vars(FetchSettles)
    /\ WF_vars(ServerAnswersCancel)
    /\ WF_vars(CancelSettles)

\* The cancel round trips while the list is polled; the jobs change on the
\* remote system only by being cancelled.
CancelNext ==
    \/ Mount
    \/ Tick
    \/ ServerAnswersFetch
    \/ FetchSettles
    \/ CancelClick
    \/ ServerAnswersCancel
    \/ CancelSettles
    \/ ErrorTimerFires

InitCancel ==
    QueueInit /\ ParserRests /\ ScannerRests /\ TrackerRests /\ RenderRests
    /\ StoreRests /\ ConfigRests /\ AudioRests /\ FormRests

SpecCancelFair == InitCancel /\ [][CancelNext]_vars /\ QueueFairness

-----------------------------------------------------------------------------
(***************************************************************************)
(* Progress logs as blocks.  A `frame=` line is a line that splits into    *)
(* exactly two parts on '=' and whose trimmed key is frame; block k runs   *)
(* from the k-th such line to the line before the next one, or to the end  *)
(* of the log.  A block is closed by its `progress=` line, the key the     *)
(* encoder writes last in every report.                                    *)
(***************************************************************************)
KeyOf(line) == Trim(line[1])
ValueOf(line) == Trim(line[2])

AssignmentLines(text) == SelectSeq(SplitLines(text), LAMBDA l : Len(l) = 2)

FrameLines(v) == {i \in 1..Len(v) : KeyOf(v[i]) = "frame"}
BlockCount(v) == Cardinality(FrameLines(v))

BlockStart(v, k) ==
    CHOOSE i \in FrameLines(v) : Cardinality({j \in FrameLines(v) : j <= i}) = k
BlockEnd(v, k) ==
    IF k = BlockCount(v) THEN Len(v) ELSE BlockStart(v, k + 1) - 1

\* the lines of block k that assign `key`, and the last of them
Assigning(v, k, key) ==
    {i \in (BlockStart(v, k) + 1)..BlockEnd(v, k) : KeyOf(v[i]) = key}
Assigned(v, k, key) == ValueOf(v[LastOf(Assigning(v, k, key))])

\* the snapshot that block k alone describes
BlockFields(v, k) ==
    [frame |-> OrZero(ParseInt(ValueOf(v[BlockStart(v, k)]))),
     fps |-> IF Assigning(v, k, "fps") = {} THEN 0
             ELSE OrZero(ParseFloat(Assigned(v, k, "fps"))),
     bitrate |-> IF Assigning(v, k, "bitrate") = {} THEN ""
                 ELSE Assigned(v, k, "bitrate"),
     outTime |-> IF Assigning(v, k, "out_time") = {} THEN ""
                 ELSE Assigned(v, k, "out_time"),
     outTimeMs |-> IF Assigning(v, k, "out_time_ms") = {} THEN 0
                   ELSE OrZero(ParseInt(Assigned(v, k, "out_time_ms"))),
     speed |-> IF Assigning(v, k, "speed") = {} THEN ""
               ELSE Assigned(v, k, "speed"),
     progress |-> IF Assigning(v, k, "progress") = {} THEN "continue"
                  ELSE Assigned(v, k, "progress"),
     totalSize |-> IF Assigning(v, k, "total_size") = {} THEN 0
                   ELSE OrZero(ParseInt(Assigned(v, k, "total_size"))),
     streamQuality |-> IF Assigning(v, k, "stream_0_0_q") = {} THEN Null
                       ELSE OrUndefined(ParseFloat(Assigned(v, k, "stream_0_0_q")))]

\* the log stops inside its last block: that block has not been closed
EndsMidBlock(v) == Len(v) > 0 /\ KeyOf(v[Len(v)]) # "progress"

pLog == AssignmentLines(pText)

\* C1: for every progress log with N >= 2 `frame=` blocks, parseProgressFile
\* returns the fields of the second-to-last block when the log does not end
\* mid-block and the fields of the last (possibly partial) block when it does;
\* never the first block, never a merge of two blocks.
C1_AsStated ==
    (pPc = "done" /\ BlockCount(pLog) >= 2) =>
        pResult = Some(BlockFields(pLog,
                     IF EndsMidBlock(pLog) THEN BlockCount(pLog)
                     ELSE BlockCount(pLog) - 1))

\* no line of the log has the key frame, well-formed or not
NoFrameLine(text) == \A i \in 1..Len(text) : Trim(text[i][1]) # "frame"

\* C18: a progress log with no `frame=` line parses to absent (null), whatever
\* other recognized or unrecognized keys it contains.
C18_NoFrameNoSnapshot ==
    (pPc = "done" /\ NoFrameLine(pText)) => pResult = Null

\* a parsed log without frame lines that assigns a recognized key and an
\* unrecognized one
C18_Witness ==
    /\ pPc = "done"
    /\ NoFrameLine(pText)
    /\ \E i \in 1..Len(pText) : pText[i] = <<"out_time_ms", "5">>
    /\ \E i \in 1..Len(pText) : pText[i] = <<"bogus", "7">>
    /\ pResult = Null

\* the well-formed lines of the target file that assign `key`
TargetAssigns(key) ==
    {i \in 1..Len(tText) : Len(tText[i]) = 2 /\ Trim(tText[i][1]) = key}

\* C19: parseProgressTargetFile returns a descriptor only when queue_id,
\* total_duration and total_frames are all present and total_duration and
\* total_frames are nonzero; in every other case, as when total_frames is
\* missing while every other field is present, it returns absent.
C19_TargetNeedsAllThree ==
    tPc = "done" =>
       /\ tResult # Null =>
             /\ TargetAssigns("queue_id") # {}
             /\ TargetAssigns("total_duration") # {}
             /\ TargetAssigns("total_frames") # {}
             /\ tResult[1]["totalDuration"] \notin {Null, Some(0)}
             /\ tResult[1]["totalFrames"] \notin {Null, Some(0)}
       /\ (\/ TargetAssigns("queue_id") = {}
           \/ TargetAssigns("total_duration") = {}
           \/ TargetAssigns("total_frames") = {}
           \/ \A i \in TargetAssigns("total_duration") :
                 OrZero(ParseFloat(Trim(tText[i][2]))) = 0
           \/ \A i \in TargetAssigns("total_frames") :
                 OrZero(ParseInt(Trim(tText[i][2]))) = 0)
          => tResult = Null

\* a parsed target file that has every field but total_frames, and no result
C19_Witness ==
    /\ tPc = "done"
    /\ \A k \in {"queue_id", "total_duration", "type", "output_file", "width",
                  "height", "fps", "encoder", "preset", "fade_effect",
                  "fade_duration", "fade_offset", "created_at"} :
          TargetAssigns(k) # {}
    /\ \E i \in TargetAssigns("total_duration") : tText[i][2] = "5"
    /\ TargetAssigns("total_frames") = {}
    /\ tResult = Null

-----------------------------------------------------------------------------
(***************************************************************************)
(* readDirectoryFiles: which sidecar a media entry is given                *)
(***************************************************************************)
\* the media name with its video extension replaced by the sidecar suffix
SidecarName(mediaName, suffix) ==
    SubSeq(mediaName, 1, Len(mediaName) - 1) \o <<suffix>>

\* C20: in every scan a media entry receives a snapshot (a target descriptor)
\* only from a sidecar file whose name is exactly the media file's name with
\* its video extension replaced by _progress.txt (_progress_target.txt).
C20_AsStated ==
    sPc = "done" =>
       \A i \in 1..Len(sFiles) :
          /\ sFiles[i].progressData # Null =>
                \E k \in 1..Len(sEntries) :
                   /\ sEntries[k].name = SidecarName(sFiles[i].name, "_progress.txt")
                   /\ sFiles[i].progressData = parseProgressFile(sEntries[k].text)
          /\ sFiles[i].progressTarget # Null =>
                \E k \in 1..Len(sEntries) :
                   /\ sEntries[k].name =
                         SidecarName(sFiles[i].name, "_progress_target.txt")
                   /\ sFiles[i].progressTarget =
                         parseProgressTargetFile(sEntries[k].text)

-----------------------------------------------------------------------------
(***************************************************************************)
(* ProgressTracker: properties of restore, grant, refresh and forget       *)
(***************************************************************************)
ScanningHandlers ==
    {h \in {"restore", "grant", "refresh"} :
        CASE h = "restore" -> restorePc = "scanning"
          [] h = "grant" -> grantPc = "scanning"
          [] h = "refresh" -> refreshPc = "scanning"}

\* C2: in every reachable state, under every interleaving of cold-start
\* restore, grant, refresh and forget, at most one directory scan
\* (readDirectoryFiles enumeration) is in progress.
C2_OneScanAtATime == Cardinality(ScanningHandlers) <= 1

C6_AsStated ==
    [][(grantPc = "saving" /\ outcomes'["grant"] \in {"openError", "putError"}) =>
          /\ errorCalls' = 0
          /\ error' = error
          /\ directoryHandle' = grantHandle
          /\ grantPc' = "scanning"]_vars

\* C7: when grant succeeds (directory chosen, record stored, scan succeeded)
\* the tracker ends with the chosen capability as the in-memory directory and
\* as the persisted record, and the file list is the scan of that directory.
C7_AsStated ==
    [][(grantPc = "scanning" /\ outcomes["grant"] = "ok"
          /\ outcomes'["grant"] = "scanOk") =>
          /\ grantPc' = "idle"
          /\ directoryHandle' = grantHandle
          /\ idb' = grantHandle
          /\ files' = ScanResult(grantHandle)]_vars

\* C8: when the user dismisses the directory picker (AbortError), grant leaves
\* the active capability, the persisted record, the display name and the file
\* list as they were, from the click to the end of the handler, and sets no
\* error message.
C8_AbortLeavesState ==
    [][/\ (grantPc = "idle" /\ grantPc' = "picking") =>
             /\ UNCHANGED <<directoryHandle, idb, directoryPath, lsName, files>>
             /\ errorCalls' = 0
             /\ error' = ""
       /\ (grantPc = "picking" /\ outcomes'["grant"] = "AbortError") =>
             /\ grantPc' = "idle"
             /\ UNCHANGED <<directoryHandle, idb, directoryPath, lsName, files>>
             /\ errorCalls' = 0
             /\ error' = error]_vars

\* the picker was dismissed over an active directory with a published list
C8_Witness ==
    /\ grantPc = "idle"
    /\ outcomes["grant"] = "AbortError"
    /\ directoryHandle # NoHandle
    /\ idb # NoHandle
    /\ files # <<>>
    /\ error = ""

\* C9: when a scan started by refresh (or by restore or grant) fails during
\* enumeration, exactly one scan-level error is surfaced, the published file
\* list is retained unchanged, and neither the in-memory capability nor the
\* persisted record is cleared.
C9_ScanFailureRetains ==
    [][\A h \in ScanningHandlers :
          outcomes'[h] = "scanError" =>
             /\ errorCalls' = 1
             /\ error' = ScanErrorMessage
             /\ UNCHANGED <<files, directoryHandle, idb>>]_vars

\* a refresh has failed over a published list: list, capability and record
\* are still there
C9_Witness ==
    /\ refreshPc = "idle"
    /\ outcomes["refresh"] = "scanError"
    /\ errorCalls = 1
    /\ error = ScanErrorMessage
    /\ files # <<>>
    /\ directoryHandle # NoHandle
    /\ idb # NoHandle

\* C10: once forget completes, the persisted record is absent, the in-memory
\* capability is null, the file list is empty and the display-only directory
\* name is removed, so that a following cold start restores nothing.
C10_AsStated ==
    [][(forgetPc = "clearing" /\ forgetPc' = "idle") =>
          /\ idb' = NoHandle
          /\ directoryHandle' = NoHandle
          /\ files' = <<>>
          /\ lsName' = NoName]_vars

\* C11: every cold start eventually leaves Restoring, whatever the outcome
\* (unsupported platform, no record, storage error, verify failure, verify
\* success with or without scan failure), and ends with no capability (Idle)
\* or with one (Active); afterwards the capability appears or changes only by
\* a grant, disappears only by forget, and a scan runs only from Active and
\* returns to Active: while one is in progress the capability is set.
C11_AsStated ==
    /\ <>(restorePc = "done" /\ ~isRestoring)
    /\ [](restorePc = "done" => ~isRestoring)
    /\ [][restorePc = "done" =>
            /\ restorePc' = "done"
            /\ directoryHandle' # directoryHandle =>
                  \/ /\ grantPc = "picking" /\ grantPc' = "saving"
                     /\ directoryHandle' # NoHandle
                  \/ /\ forgetPc = "idle" /\ forgetPc' = "clearing"
                     /\ directoryHandle # NoHandle
                     /\ directoryHandle' = NoHandle
            /\ ScanningHandlers' # {} => directoryHandle' # NoHandle]_vars

-----------------------------------------------------------------------------
(***************************************************************************)
(* QueueView: properties of the job list                                   *)
(***************************************************************************)

\* C12: on a cold start whose stored capability loads and verifies, the
\* restore flow by itself makes that capability the active directory, scans it
\* and ends, and none of its steps changes the persisted record (IndexedDB
\* handle, localStorage name).  "That capability" is the record read by
\* restoreDirectoryHandle.
RestoreStep == restorePc' # restorePc

C12_ValidRestoreActivates ==
    /\ [][RestoreStep /\ outcomes'["restore"] = "ok" /\ restorePc' = "verifying"
            => restoreHandle' = idb /\ restoreHandle' # NoHandle]_vars
    /\ [][RestoreStep /\ outcomes'["restore"] = "valid"
            => /\ directoryHandle' = restoreHandle
               /\ directoryPath' = HandleName(restoreHandle)
               /\ restorePc' = "scanning"
               /\ idb' = idb /\ lsName' = lsName]_vars
    /\ [][RestoreStep /\ outcomes'["restore"] = "scanOk"
            => /\ files' = ScanResult(restoreHandle)
               /\ idb' = idb /\ lsName' = lsName]_vars
    /\ [][RestoreStep /\ outcomes'["restore"] = "scanError"
            => idb' = idb /\ lsName' = lsName]_vars
    /\ (outcomes["restore"] = "valid")
          ~> (outcomes["restore"] \in {"scanOk", "scanError"} /\ restorePc = "done")

\* a cold start restored and scanned the stored directory with no click made
C12_Witness ==
    /\ outcomes["restore"] = "scanOk"
    /\ outcomes["grant"] = "none" /\ outcomes["refresh"] = "none"
    /\ outcomes["forget"] = "none"
    /\ grantPc = "idle" /\ refreshPc = "idle" /\ forgetPc = "idle"
    /\ directoryHandle = restoreHandle /\ directoryHandle # NoHandle
    /\ idb = directoryHandle
    /\ files = ScanResult(directoryHandle)
    /\ ~isRestoring /\ ~loading

\* the list fetches a step puts in flight
FetchesIssued == {f \in fetches' : f.seq > issued}

\* C13: a fetch that fails sets the error to the fetch message and changes
\* neither the job list nor the polling timer, so that while the component
\* is shown the timer can fire again and issue a fetch; a fetch that succeeds
\* replaces the job list by the response and clears the error.
C13_FailureKeepsPolling ==
    /\ [][\A f \in fetches : (f.stage = "failed" /\ f \notin fetches') =>
             /\ qError' = FetchErrorMessage
             /\ queueItems' = queueItems
             /\ interval' = interval]_vars
    /\ [][\A f \in fetches : (f.stage = "ok" /\ f \notin fetches') =>
             /\ queueItems' = f.body
             /\ qError' = ""]_vars
    /\ []((qError = FetchErrorMessage /\ mounted /\ issued < MaxFetches)
            => ENABLED (Tick /\ FetchesIssued # {}))

\* the error of a failed fetch is shown, the timer has issued another fetch
\* and its successful response is about to be taken
C13_Witness ==
    /\ qError = FetchErrorMessage
    /\ mounted /\ interval = {apiUrl}
    /\ \E f \in fetches : f.owner = "poll" /\ f.stage = "ok" /\ f.seq > 1

\* C14: the effect run at activation issues exactly one fetch and starts one
\* timer; every fetch of the polling loop is issued one at a time, while the
\* component is shown, to the current apiUrl; the only live timer is the one
\* of the current effect run, so that after an unmount or an apiUrl change
\* the old timer issues nothing; while the component is shown the timer can
\* fire.
C14_PollingLifecycle ==
    /\ [][(~mounted /\ mounted') =>
             /\ Cardinality(FetchesIssued) = 1
             /\ interval' = {apiUrl}]_vars
    /\ [][apiUrl' # apiUrl =>
             /\ Cardinality(FetchesIssued) = 1
             /\ interval' = {apiUrl'}]_vars
    /\ [][\A f \in FetchesIssued : f.owner = "poll" =>
             /\ mounted'
             /\ f.url = apiUrl'
             /\ Cardinality(FetchesIssued) = 1]_vars
    /\ [](interval \subseteq (IF mounted THEN {apiUrl} ELSE {}))
    /\ []((mounted /\ issued < MaxFetches)
            => ENABLED (Tick /\ FetchesIssued # {}))

\* the component polled, was handed another apiUrl and was then removed
C14_Witness ==
    /\ unmounted
    /\ apiUrl # FirstUrl
    /\ interval = {}
    /\ issued > 1

\* C15: a cancel request that fails shows the cancel error and arms a timer
\* that clears the error when it fires, so the cancel error is never shown
\* without a clearing timer pending; the failing cancel leaves the job list
\* as it is and issues no fetch; the job list changes only by taking a
\* successful fetch response.
C15_FailedCancel ==
    /\ [][\A c \in cancels : (c.stage = "failed" /\ c \notin cancels') =>
             /\ qError' = CancelErrorMessage
             /\ errorTimers' = errorTimers + 1
             /\ queueItems' = queueItems
             /\ FetchesIssued = {}]_vars
    /\ [](qError = CancelErrorMessage => errorTimers > 0)
    /\ [][errorTimers' < errorTimers => qError' = ""]_vars
    /\ [][queueItems' # queueItems =>
             \E f \in fetches : /\ f.stage = "ok" /\ f \notin fetches'
                                /\ queueItems' = f.body]_vars

\* a cancel has failed: its error is shown, its timer is pending, and the
\* job is listed with the status it had
C15_Witness ==
    /\ qError = CancelErrorMessage
    /\ errorTimers = 1
    /\ cancels = {} /\ cancelsIssued = 1
    /\ cancellingIds = {}
    /\ \E j \in JobIds : queueItems[j] \in {"pending", "processing"}

\* the cancel round trip of job j is under way: its DELETE request, or the
\* list fetch its cancelQueueItem awaits, has not been taken yet
RoundTrip(j) ==
    \/ \E c \in cancels : c.job = j
    \/ \E f \in fetches : f.owner = j

CancelsInFlight(j) == {c \in cancels : c.job = j}

ClaimedPercent(outTimeMs, totalDuration) ==
    IF outTimeMs <= 0 \/ totalDuration <= 0 THEN 0
    ELSE LET rounded == Round(TimeRatio(outTimeMs, totalDuration))
         IN  IF rounded < 100 THEN rounded ELSE 100

\* C21: for a snapshot/target pair whose progress state is not "end", the
\* label shows 0 when out_time_ms <= 0 or the total duration <= 0, and
\* otherwise min(100, round(out_time_ms / 1000000 / totalDuration * 100));
\* label and bar width lie within [0, 100]; 60000000 of 120 gives 50.
C21_PercentClamped ==
    (rPc = "done" /\ rLabel # Null /\ rData[1].progress # "end") =>
        LET out == rData[1].outTimeMs
            dur == rTarget[1]["totalDuration"][1]
        IN  /\ rLabel[1] = ClaimedPercent(out, dur)
            /\ rLabel[1] \in 0..100
            /\ RatLeq(Rat(0, 1), rBar[1]) /\ RatLeq(rBar[1], Rat(100, 1))
            /\ (out = 60000000 /\ dur = 120) => rLabel[1] = 50
            /\ (out <= 0 \/ dur <= 0) => rLabel[1] = 0

\* an out_time_ms beyond the total duration was rendered as 100
C21_Witness ==
    /\ rPc = "done"
    /\ rData # Null /\ rTarget # Null
    /\ rData[1].progress = "continue"
    /\ rData[1].outTimeMs = 200000000
    /\ rTarget[1]["totalDuration"][1] = 120
    /\ rLabel = Some(100)

\* C22: an entry whose snapshot's progress state is "end" has the percentage
\* 100, whatever its time fields and whatever its target, also with no target.
C22_AsStated ==
    (rPc = "done" /\ rData # Null /\ rData[1].progress = "end") =>
        rLabel = Some(100)

\* the media entries of a listing, as a bag of <<name, lastModified>>
MediaOf(list) ==
    {<<list[i].name, list[i].lastModified>> : i \in 1..Len(list)}

\* C23: every scan result is ordered by last-modified timestamp, newest
\* first, whatever the order in which the directory was enumerated, and it
\* holds exactly the media files of the directory.
C23_NewestFirst ==
    sPc = "done" =>
       /\ \A i, j \in 1..Len(sFiles) :
             i < j => sFiles[i].lastModified >= sFiles[j].lastModified
       /\ MediaOf(sFiles) = MediaOf(CollectVideos(sEntries))
       /\ Len(sFiles) = Len(CollectVideos(sEntries))

\* three media files enumerated oldest first are listed [T3, T2, T1]
C23_Witness ==
    /\ sPc = "done"
    /\ Len(sEntries) = 3
    /\ \A k \in 1..3 : sEntries[k].lastModified = k
    /\ Len(sFiles) = 3
    /\ \A k \in 1..3 : /\ sFiles[k].lastModified = 4 - k
                        /\ sFiles[k].name = sEntries[4 - k].name

\* C24: where the directory API is missing, a call of openDirectoryPicker
\* sets the unsupported error and does nothing else: no picker is opened, no
\* record is written or deleted, no request reaches IndexedDB, nothing is
\* scanned; and the cold start ends Restoring in its first step without
\* loading or verifying.
C24_UnsupportedPlatform ==
    /\ [](~supported =>
            /\ grantPc = "idle" /\ refreshPc = "idle" /\ forgetPc = "idle"
            /\ restorePc \in {"mount", "done"}
            /\ idbQueue = <<>>
            /\ ScanningHandlers = {}
            /\ files = <<>> /\ directoryHandle = NoHandle /\ ~loading
            /\ error \in {"", UnsupportedMessage})
    /\ [][~supported => idb' = idb /\ lsName' = lsName]_vars
    /\ [][(~supported /\ outcomes'["grant"] = "unsupported")
            => error' = UnsupportedMessage]_vars
    /\ [][(~supported /\ restorePc = "mount" /\ restorePc' # "mount")
            => /\ restorePc' = "done" /\ ~isRestoring'
               /\ outcomes'["restore"] = "none"]_vars

\* the unsupported error is set, the cold start is over and the stored
\* record is still there
C24_Witness ==
    /\ ~supported
    /\ outcomes["grant"] = "unsupported"
    /\ error = UnsupportedMessage
    /\ restorePc = "done" /\ ~isRestoring
    /\ idb # NoHandle /\ lsName # NoName

\* the record a database holds under the fixed key, NoHandle when none
RecordOf(db) == IF db = Null THEN NoHandle ELSE Get(db[1], HandleKey)

\* the capability that the calls before call i have left stored: that of the
\* last save whose put succeeded, unless a delete succeeded after it; the
\* first session's record when neither happened
RECURSIVE LeftStored(_)
LeftStored(i) ==
    IF i = 1 THEN RecordOf(hsFirst)
    ELSE LET c == hsLog[i - 1] IN
         IF c.op = "save" /\ c.outcome = "ok" THEN c.arg
         ELSE IF c.op = "clear" /\ c.outcome = "ok" THEN NoHandle
         ELSE LeftStored(i - 1)

\* C25: the store never holds a key other than the fixed one; a save whose
\* put succeeds leaves its capability as the record, whatever was there; so
\* every load that reads the store, in this or in a later session, returns
\* the capability of the last successful save not followed by a successful
\* clear.
C25_SaveOverwrites ==
    /\ hsDb # Null => DOMAIN hsDb[1] \subseteq {HandleKey}
    /\ \A i \in 1..Len(hsLog) :
          LET c == hsLog[i]
              after == IF i < Len(hsLog) THEN hsLog[i + 1].before ELSE hsDb
          IN  /\ (c.op = "save" /\ c.outcome = "ok") =>
                    (RecordOf(after) = c.arg /\ c.settled = "resolved")
              /\ (c.op = "load" /\ c.outcome = "ok") =>
                    c.value = LeftStored(i)

\* save(dirA), save(dirB), then a load in a later session returned dirB
C25_Witness ==
    /\ Len(hsLog) = 3
    /\ hsLog[1].op = "save" /\ hsLog[1].arg = "dirA" /\ hsLog[1].outcome = "ok"
    /\ hsLog[2].op = "save" /\ hsLog[2].arg = "dirB" /\ hsLog[2].outcome = "ok"
    /\ hsLog[3].op = "load" /\ hsLog[3].session = "later"
    /\ hsLog[3].value = "dirB"

\* C26: every clear completes without error; a load that follows a clear
\* returns absent; a clear made when there is no record (or no database)
\* leaves the store empty.
C26_AsStated ==
    \A i \in 1..Len(hsLog) :
       LET c == hsLog[i]
           after == IF i < Len(hsLog) THEN hsLog[i + 1].before ELSE hsDb
       IN  c.op = "clear" =>
              /\ RecordOf(c.before) = NoHandle =>
                     (c.settled = "resolved" /\ RecordOf(after) = NoHandle)
              /\ (i < Len(hsLog) /\ hsLog[i + 1].op = "load") =>
                     hsLog[i + 1].value = NoHandle

\* C27: a load never rejects; it returns absent when there is no record,
\* when the database did not exist, and when opening or reading fails; it
\* returns a capability only when that capability is the stored record.
C27_LoadNeverFails ==
    \A i \in 1..Len(hsLog) :
       LET c == hsLog[i] IN
       c.op = "load" =>
          /\ c.settled = "resolved"
          /\ RecordOf(c.before) = NoHandle => c.value = NoHandle
          /\ c.outcome # "ok" => c.value = NoHandle
          /\ c.value # NoHandle => c.value = RecordOf(c.before)
          /\ c.outcome = "ok" => c.value = RecordOf(c.before)

\* a record is stored, reading it failed, and the load returned absent
C27_Witness ==
    \E i \in 1..Len(hsLog) :
       /\ hsLog[i].op = "load"
       /\ hsLog[i].outcome = "getError"
       /\ RecordOf(hsLog[i].before) # NoHandle
       /\ hsLog[i].settled = "resolved" /\ hsLog[i].value = NoHandle

\* C3: the locally held job list only ever becomes the body of a successfully
\* completed GET /api/queue/list response; neither a cancel (accepted or
\* failed) nor a failed fetch writes, removes or alters a job locally.
C3_ListFromResponses ==
    [][queueItems' # queueItems =>
          \E f \in fetches :
             /\ f.stage = "ok"
             /\ f \notin fetches'
             /\ queueItems' = f.body]_vars

\* a cancel was accepted and its forced fetch is in flight, while the job is
\* still listed with the status of the last response
C3_Witness ==
    \E f \in fetches :
       /\ f.owner \in JobIds
       /\ queueItems[f.owner] \in {"pending", "processing"}
       /\ server[f.owner] = "cancelled"

\* C4: after a cancel request succeeds a fetch of the job list is issued at
\* once, before the flag of the job is cleared and with no local change of the
\* list; and the next response the list is set from belongs to a fetch issued
\* after that cancel succeeded.
C4_AsStated ==
    [][/\ \A c \in cancels :
             (c.stage = "ok" /\ c \notin cancels') =>
                /\ \E f \in fetches' \ fetches : f.owner = c.job
                /\ c.job \in cancellingIds'
                /\ queueItems' = queueItems
       /\ \A f \in fetches :
             (f.stage = "ok" /\ f \notin fetches') =>
                \A j \in JobIds : awaiting[j] > 0 => f.clock >= awaiting[j]]_vars

\* C28 (as stated): once a URL (a non-empty string) has been saved through
\* Simpan and the field not edited since, localStorage holds it and every
\* backend request sent - health check, build, queue list, queue cancel -
\* goes to it; when the page has just loaded, the URL of both components is
\* the stored URL if there is one, else NEXT_PUBLIC_API_URL, else
\* http://localhost:8080.
C28_AsStated ==
    /\ TruthyString(savedUrl) =>
          /\ localStorageUrl = savedUrl
          /\ \A r \in requests : r.url = savedUrl[1]
    /\ started =>
          LET url == IF TruthyString(localStorageUrl) THEN localStorageUrl[1]
                     ELSE IF TruthyString(envApiUrl) THEN envApiUrl[1]
                     ELSE "http://localhost:8080"
          IN  homeApiUrl = url /\ mixerApiUrl = url

\* how often a file occurs in a list
Occurrences(list, f) == Cardinality({i \in 1..Len(list) : list[i] = f})

SameFiles(a, b) ==
    /\ Len(a) = Len(b)
    /\ \A f \in AudioFile : Occurrences(a, f) = Occurrences(b, f)

\* the positions of the item with this id (none when the id is unknown)
PositionsOf(list, id) == {i \in 1..Len(list) : list[i].id = id}

\* C29: after any sequence of moveAudioFile and randomizeAudioFiles calls
\* the list holds exactly the files that were uploaded; a randomize leaves
\* the files it found; a move with an unknown id, 'up' on the first item or
\* 'down' on the last item leaves the list as it was, and any other move
\* exchanges the item with its immediate neighbour and touches nothing else.
C29_OnlyPermutes ==
    /\ SameFiles(audioFiles, audioFirst)
    /\ audioCall.op = "randomize" => SameFiles(audioFiles, audioCall.prev)
    /\ audioCall.op = "move" =>
          LET prev == audioCall.prev
              at == PositionsOf(prev, audioCall.id)
          IN  IF at = {} THEN audioFiles = prev
              ELSE \A i \in at :
                     LET t == IF audioCall.direction = "up"
                              THEN i - 1 ELSE i + 1
                     IN  IF t < 1 \/ t > Len(prev) THEN audioFiles = prev
                         ELSE /\ Len(audioFiles) = Len(prev)
                              /\ audioFiles[i] = prev[t]
                              /\ audioFiles[t] = prev[i]
                              /\ \A k \in 1..Len(prev) \ {i, t} :
                                    audioFiles[k] = prev[k]

\* a move that exchanged the middle item of three with a neighbour, on a
\* list already reordered before
C29_Witness ==
    /\ audioCall.op = "move"
    /\ Len(audioFiles) >= 3
    /\ audioCall.prev # audioFirst
    /\ audioFiles # audioCall.prev
    /\ audioCall.prev[2].id = audioCall.id

\* what a complete scan of the directory finds: its media entries, each with
\* the sidecars that belong to it, newest first
Found(d) == SortNewestFirst(AttachSidecars(DirEntries(d),
                                           CollectVideos(DirEntries(d))))

\* this step is the end of a scan that succeeded, and the list is now what
\* that scan found, sidecars attached and sorted
ScanPublished ==
    \/ /\ restorePc = "scanning" /\ restorePc' # "scanning"
       /\ outcomes'["restore"] = "scanOk"
       /\ files' = Found(restoreHandle)
    \/ /\ grantPc = "scanning" /\ grantPc' # "scanning"
       /\ outcomes'["grant"] = "scanOk"
       /\ files' = Found(grantHandle)
    \/ /\ refreshPc = "scanning" /\ refreshPc' # "scanning"
       /\ outcomes'["refresh"] = "scanOk"
       /\ files' = Found(refreshHandle)

\* this step is the Hapus click, and the list is now empty
ForgetEmptied ==
    forgetPc = "idle" /\ forgetPc' = "clearing" /\ files' = <<>>

\* the list is empty or the whole result of scanning one directory
WholeResult(list) == list = <<>> \/ \E d \in Dirs : list = Found(d)

\* C30 (as stated): the published file list changes only in the step that
\* ends a successful scan, and then to the complete result of that scan; it
\* is never a partly collected or partly associated list.
C30_AsStated ==
    [][/\ files' # files => ScanPublished
       /\ WholeResult(files')]_vars

\* C30, as it holds of the code: the published file list changes only in the
\* step that ends a successful scan, then to the complete result of that
\* scan with its associations attached and nothing of the previous result
\* kept, or in the Hapus click, then to the empty list; it is never a partly
\* collected or partly associated list.
C30_PublishedWhole ==
    [][/\ files' # files => ScanPublished \/ ForgetEmptied
       /\ WholeResult(files')]_vars

\* the restore published the result of one directory, and a later scan of
\* another directory replaced it
C30_Witness ==
    /\ outcomes["restore"] = "scanOk" /\ restoreHandle = "dirA"
    /\ outcomes["grant"] = "scanOk"
    /\ files = Found("dirB")
    /\ files # <<>>

\* the three kinds of name the scan knows, by the lower-cased suffix
Classified(name) == IsVideoName(name) \/ IsProgressName(name) \/ IsTargetName(name)

\* C31 (as stated): after a scan, every file entry whose suffix is a video
\* extension in any letter case is published as a media entry, and the base
\* name of every classified entry (the key its sidecars are looked up by) is
\* its file name with that one suffix stripped.
C31_AsStated ==
    sPc = "done" =>
       \A k \in 1..Len(sEntries) :
          LET e == sEntries[k] IN
          /\ (e.kind = "file" /\ IsVideoName(e.name)) =>
                \E i \in 1..Len(sFiles) : sFiles[i].name = e.name
          /\ (e.kind = "file" /\ Classified(e.name)) =>
                getBaseFileName(e.name) = SubSeq(e.name, 1, Len(e.name) - 1)

\* the sidecars of a listing whose content cannot be read
Unreadable(entries) == {k \in 1..Len(entries) : ~entries[k].readable}

\* the listing with the unreadable sidecars taken out
WithoutUnreadable(entries) == SelectSeq(entries, LAMBDA e : e.readable)

\* C32: a sidecar whose content cannot be read never fails the scan: no
\* scan-level error is set, every media entry of the directory is published,
\* and the published list is what the scan would publish were the unreadable
\* files not in the directory at all (their media entries carry no data from
\* them, every other entry is as it would be).
C32_ReadFailureIsNoData ==
    sPc = "done" =>
       /\ sError = ""
       /\ sFiles = readDirectoryFiles(WithoutUnreadable(sEntries))
       /\ \A k \in 1..Len(sEntries) :
             IsVideoName(sEntries[k].name) =>
                \E i \in 1..Len(sFiles) : sFiles[i].name = sEntries[k].name

\* a scan of a directory with a media file, its unreadable progress log and
\* a readable target descriptor: the entry has the descriptor only
C32_Witness ==
    /\ sPc = "done"
    /\ Unreadable(sEntries) # {}
    /\ \E i \in 1..Len(sFiles) :
          /\ sFiles[i].progressData = Null
          /\ sFiles[i].progressTarget # Null
          /\ \E k \in Unreadable(sEntries) :
                /\ IsProgressName(sEntries[k].name)
                /\ getBaseFileName(sEntries[k].name)
                      = getBaseFileName(sFiles[i].name)

\* a media file's name without its video extension
MediaStem(name) == SubSeq(name, 1, Len(name) - 1)

\* C33 (as stated): in every scan each media entry carries at most one
\* snapshot and at most one target descriptor, and media files with the same
\* base name (the name without its video extension, as song.mp4 and song.mkv)
\* all carry the same snapshot and the same descriptor.
C33_AsStated ==
    sPc = "done" =>
       \A i, j \in 1..Len(sFiles) :
          /\ Len(sFiles[i].progressData) <= 1
          /\ Len(sFiles[i].progressTarget) <= 1
          /\ MediaStem(sFiles[i].name) = MediaStem(sFiles[j].name) =>
                /\ sFiles[i].progressData = sFiles[j].progressData
                /\ sFiles[i].progressTarget = sFiles[j].progressTarget

\* C34 (as stated): a fetch in flight is never dropped before its response
\* has come; every successful response delivered overwrites the job list
\* with its body; and the response whose delivery leaves no fetch in flight,
\* and which the list then shows, is that of the most recently issued fetch.
C34_AsStated ==
    [][/\ \A f \in fetches :
             f.stage = "sent" => \E g \in fetches' : g.seq = f.seq
       /\ \A f \in fetches :
             (f.stage = "ok" /\ f \notin fetches') =>
                /\ queueItems' = f.body
                /\ fetches' = {} => f.seq = issued]_vars

\* no handler of the tracker is between its first and its last statement
Quiescent ==
    /\ restorePc = "done" /\ grantPc = "idle"
    /\ refreshPc = "idle" /\ forgetPc = "idle"

C36_AsStated ==
    (ScanningHandlers # {} \/ grantPc # "idle") => loading

\* C37: no scan, whether started by refresh, restore or grant, and no other
\* step of the tracker empties the error message, except the click on Pilih /
\* Ganti Directory: a message set by a failed scan is still shown after a
\* later refresh that succeeded.
C37_ErrorOutlivesRefresh ==
    [][/\ (error # "" /\ error' = "") =>
             grantPc = "idle" /\ grantPc' = "picking"
       /\ (refreshPc = "scanning" /\ refreshPc' = "idle"
             /\ outcomes'["refresh"] = "scanOk") => error' = error]_vars

\* restore's scan failed, no grant was made, and a refresh has since
\* succeeded: the list is there and the message of the failed scan with it
C37_Witness ==
    /\ outcomes["restore"] = "scanError"
    /\ outcomes["grant"] = "none" /\ grantPc = "idle"
    /\ outcomes["refresh"] = "scanOk" /\ refreshPc = "idle"
    /\ files # <<>>
    /\ error = ScanErrorMessage

\* C38: the error message is one slot: the timer armed by a failed cancel
\* empties it when it fires whatever message it holds then, a fetch failure's
\* included, and the delivery of any successful fetch response empties it
\* even while such a timer is still pending.
C38_SharedErrorSlot ==
    [][/\ errorTimers' < errorTimers => qError' = ""
       /\ \A f \in fetches :
             (f.stage = "ok" /\ f \notin fetches') => qError' = ""
       /\ \A f \in fetches :
             (f.stage = "failed" /\ f \notin fetches') =>
                qError' = FetchErrorMessage /\ errorTimers' = errorTimers]_vars

\* a cancel has failed and its timer is still pending, while the message
\* shown is that of a fetch that failed afterwards: the timer will erase it
C38_Witness ==
    /\ errorTimers > 0
    /\ cancels = {}
    /\ qError = FetchErrorMessage

\* the lines that split into exactly two parts on '='
TwoPartLines(text) == SelectSeq(text, LAMBDA l : Len(l) = 2)

\* C39: both parsers return what they return for the text without the lines
\* that do not split into exactly two parts on '=': a line whose value holds
\* an '=' changes no key, and as a frame line it opens no block.
C39_DropsOtherLines ==
    /\ pPc = "done" => pResult = parseProgressFile(TwoPartLines(pText))
    /\ tPc = "done" => tResult = parseProgressTargetFile(TwoPartLines(tText))

\* a target file whose last line is total_frames=7=1, after a line that set
\* total_frames to 9: the descriptor keeps 9
C39_Witness ==
    /\ tPc = "done"
    /\ Len(tText) >= 2
    /\ tText[Len(tText)] = <<"total_frames", "7", "1">>
    /\ tResult # Null
    /\ tResult[1]["totalFrames"] = Some(9)

\* C40: the selected preset is always one of the presets offered for the
\* selected encoder, in the form and in every build request; a change of
\* encoder puts the preset on that encoder's default; a change of preset alone
\* picks one of the options rendered for the current encoder.
C40_PresetOfEncoder ==
    /\ [](/\ preset \in PresetOptions(encoder)
          /\ buildQuery # Null =>
               buildQuery[1].preset \in PresetOptions(buildQuery[1].encoder))
    /\ [][/\ encoder' # encoder => preset' = DefaultPreset(encoder')
          /\ (preset' # preset /\ encoder' = encoder) =>
               preset' \in PresetOptions(encoder)]_vars

\* the encoder was changed to amf after a build was requested with cpu and
\* ultrafast, a preset amf does not have
C40_Witness ==
    /\ encoder = "amf"
    /\ preset = "balanced"
    /\ buildQuery = Some([mode |-> "video-loop", encoder |-> "cpu",
                          preset |-> "ultrafast"])


=============================================================================
